---- MODULE Spec2Model ----
(***************************************************************************)
(* Session / authorization layer of the Streamlit Azure AD SSO template:   *)
(* cookie-backed session restore, authorization-code exchange, logout and  *)
(* the page guards, modelled from src/SSO, src/utils and src/app.py.       *)
(***************************************************************************)
EXTENDS Integers, Sequences, FiniteSets, TLC

VARIABLES
    tabs,       \* the session contexts (browser tabs) of the one browser
    environ,    \* the process environment and the secret store SSO.config reads
    config,     \* CLIENT_ID / CLIENT_SECRET / TENANT_ID / REDIRECT_URI as resolved at import
    sessions,   \* st.session_state of each tab
    jar,        \* the browser's cookie jar, shared by the tabs
    query,      \* st.query_params of each tab: the `code` parameter or NoCode
    page,       \* the page script each tab is on
    pc,         \* position of each tab's script run
    click,      \* whether the run under way was triggered by the Logout button
    redeemed,   \* authorization codes the provider has already honoured
    exchanges,  \* per code: number of handle_auth_callback invocations
    last        \* the operation that made the last step, and its outcome

vars == <<tabs, environ, config, sessions, jar, query, page, pc, click, redeemed, exchanges, last>>

-----------------------------------------------------------------------------
(* Bounds *)

MaxExchanges == 2

\* the authorization code values a request may carry; NoCode: no `code` parameter
Codes == {1, 2}
NoCode == 0

-----------------------------------------------------------------------------
(* Python values. Every value has the shape [t, s, items]:                  *)
(*   None           t = "none"                                              *)
(*   bool           t = "bool",  s = "true" / "false"                       *)
(*   str            t = "str",   s = the string                             *)
(*   list           t = "list",  items = the elements                       *)
(*   dict           t = "dict",  items = the entries in insertion order     *)
(*   a dict entry   t = "entry", s = the key, items = <<value>>             *)

PyNone == [t |-> "none", s |-> "", items |-> <<>>]
PyBool(b) == [t |-> "bool", s |-> IF b THEN "true" ELSE "false", items |-> <<>>]
PyStr(x) == [t |-> "str", s |-> x, items |-> <<>>]
PyList(xs) == [t |-> "list", s |-> "", items |-> xs]
PyEntry(k, v) == [t |-> "entry", s |-> k, items |-> <<v>>]
PyDict(es) == [t |-> "dict", s |-> "", items |-> es]

IsDict(v) == v.t = "dict"
IsList(v) == v.t = "list"

\* Python truthiness of a value
Truthy(v) ==
    CASE v.t = "none" -> FALSE
      [] v.t = "bool" -> v.s = "true"
      [] v.t = "str" -> v.s # ""
      [] OTHER -> Len(v.items) > 0

HasKey(d, k) == \E i \in 1..Len(d.items) : d.items[i].s = k

\* dict.get(k, default)
DictGet(d, k, default) ==
    IF HasKey(d, k)
    THEN d.items[CHOOSE i \in 1..Len(d.items) : d.items[i].s = k].items[1]
    ELSE default

\* d[k] = v on the entry sequence: an existing key keeps its place
DictSet(es, k, v) ==
    IF \E i \in 1..Len(es) : es[i].s = k
    THEN [i \in 1..Len(es) |-> IF es[i].s = k THEN PyEntry(k, v) ELSE es[i]]
    ELSE Append(es, PyEntry(k, v))

-----------------------------------------------------------------------------
(* JSON text is a sequence of lexical tokens [k, v].                        *)

Tok(k, v) == [k |-> k, v |-> v]
LBrace == Tok("punct", "{")
RBrace == Tok("punct", "}")
LBrack == Tok("punct", "[")
RBrack == Tok("punct", "]")
Colon == Tok("punct", ":")
Comma == Tok("punct", ",")
StrTok(x) == Tok("str", x)
LitTok(x) == Tok("lit", x)

RECURSIVE Dumps(_)
RECURSIVE DumpsSeq(_, _)

\* the elements or entries xs[i..], comma separated
DumpsSeq(xs, i) ==
    IF i > Len(xs) THEN <<>>
    ELSE (IF i > 1 THEN <<Comma>> ELSE <<>>) \o Dumps(xs[i]) \o DumpsSeq(xs, i + 1)

\* json.dumps
Dumps(v) ==
    CASE v.t = "none" -> <<LitTok("null")>>
      [] v.t = "bool" -> <<LitTok(v.s)>>
      [] v.t = "str" -> <<StrTok(v.s)>>
      [] v.t = "list" -> <<LBrack>> \o DumpsSeq(v.items, 1) \o <<RBrack>>
      [] v.t = "dict" -> <<LBrace>> \o DumpsSeq(v.items, 1) \o <<RBrace>>
      [] v.t = "entry" -> <<StrTok(v.s), Colon>> \o Dumps(v.items[1])

ParseFail == [ok |-> FALSE, val |-> PyNone, next |-> 0]
ParseOk(v, n) == [ok |-> TRUE, val |-> v, next |-> n]

RECURSIVE ParseValue(_, _)
RECURSIVE ParseElems(_, _, _)
RECURSIVE ParseMembers(_, _, _)

\* after "[" or ",": one element, then "," or "]"
ParseElems(txt, i, acc) ==
    LET r == ParseValue(txt, i) IN
    IF ~r.ok \/ r.next > Len(txt) THEN ParseFail
    ELSE IF txt[r.next] = RBrack THEN ParseOk(PyList(Append(acc, r.val)), r.next + 1)
    ELSE IF txt[r.next] = Comma THEN ParseElems(txt, r.next + 1, Append(acc, r.val))
    ELSE ParseFail

\* after "{" or ",": "key" : value, then "," or "}"
ParseMembers(txt, i, acc) ==
    IF i + 1 > Len(txt) \/ txt[i].k # "str" \/ txt[i + 1] # Colon THEN ParseFail
    ELSE LET r == ParseValue(txt, i + 2) IN
         IF ~r.ok \/ r.next > Len(txt) THEN ParseFail
         ELSE IF txt[r.next] = RBrace
              THEN ParseOk(PyDict(DictSet(acc, txt[i].v, r.val)), r.next + 1)
         ELSE IF txt[r.next] = Comma
              THEN ParseMembers(txt, r.next + 1, DictSet(acc, txt[i].v, r.val))
         ELSE ParseFail

ParseValue(txt, i) ==
    IF i > Len(txt) THEN ParseFail
    ELSE CASE txt[i].k = "str" -> ParseOk(PyStr(txt[i].v), i + 1)
           [] txt[i] = LitTok("null") -> ParseOk(PyNone, i + 1)
           [] txt[i] = LitTok("true") -> ParseOk(PyBool(TRUE), i + 1)
           [] txt[i] = LitTok("false") -> ParseOk(PyBool(FALSE), i + 1)
           [] txt[i] = LBrack ->
                IF i + 1 <= Len(txt) /\ txt[i + 1] = RBrack
                THEN ParseOk(PyList(<<>>), i + 2)
                ELSE ParseElems(txt, i + 1, <<>>)
           [] txt[i] = LBrace ->
                IF i + 1 <= Len(txt) /\ txt[i + 1] = RBrace
                THEN ParseOk(PyDict(<<>>), i + 2)
                ELSE ParseMembers(txt, i + 1, <<>>)
           [] OTHER -> ParseFail

\* json.loads: [ok, val]; ok = FALSE stands for json.JSONDecodeError
Loads(txt) ==
    LET r == ParseValue(txt, 1) IN
    IF r.ok /\ r.next = Len(txt) + 1
    THEN [ok |-> TRUE, val |-> r.val]
    ELSE [ok |-> FALSE, val |-> PyNone]

-----------------------------------------------------------------------------
(* The cookie controller: a name -> cookie store with set / remove / getAll *)

CookieNames == {"authenticated", "user_info", "session_id"}

\* the names among CookieNames with cookie_name.startswith("session_")
OldSessionCookies == {"session_id"}

NoCookie == [present |-> FALSE, value |-> <<>>, max_age |-> 0, secure |-> FALSE, samesite |-> ""]

EmptyJar == [n \in CookieNames |-> NoCookie]

\* the text "true"
TrueText == <<LitTok("true")>>

CookieMaxAge == 86400

\* cookie_controller.set(name, value, max_age=, secure=, samesite=)
CookieSet(j, name, value, max_age, secure, samesite) ==
    [j EXCEPT ![name] = [present |-> TRUE, value |-> value, max_age |-> max_age,
                         secure |-> secure, samesite |-> samesite]]

\* cookie_controller.remove(name)
CookieRemove(j, name) == [j EXCEPT ![name] = NoCookie]

\* truthiness of the dict cookie_controller.getAll() returns
CookiesTruthy(j) == \E n \in CookieNames : j[n].present

-----------------------------------------------------------------------------
(* st.session_state: the keys that are set, and their values (a key that    *)
(* is not set holds the value init_session_state would give it).            *)

SessionKeys == {"_cookies_cleaned", "authenticated", "user_info", "auth_code_processed"}

FreshSession ==
    [keys |-> {}, authenticated |-> FALSE, user_info |-> PyNone, auth_code_processed |-> FALSE]

\* st.session_state.get("authenticated", False)
GetAuthenticated(sess) == IF "authenticated" \in sess.keys THEN sess.authenticated ELSE FALSE

\* the first run of a session removes the session_* cookies of an older scheme
CleanOldCookies(sess, j) ==
    IF "_cookies_cleaned" \notin sess.keys
    THEN [n \in CookieNames |-> IF n \in OldSessionCookies THEN NoCookie ELSE j[n]]
    ELSE j

\* the three "if key not in st.session_state" defaults
InitDefaults(sess) ==
    [keys |-> sess.keys \cup SessionKeys,
     authenticated |-> IF "authenticated" \in sess.keys THEN sess.authenticated ELSE FALSE,
     user_info |-> IF "user_info" \in sess.keys THEN sess.user_info ELSE PyNone,
     auth_code_processed |->
        IF "auth_code_processed" \in sess.keys THEN sess.auth_code_processed ELSE FALSE]

\* the condition under which the restore is tried at all
RestoreTried(sess, cookies) ==
    /\ ~sess.authenticated
    /\ CookiesTruthy(cookies)
    /\ cookies["authenticated"].present
    /\ cookies["authenticated"].value = TrueText
    /\ cookies["user_info"].present
    /\ Len(cookies["user_info"].value) > 0

\* init_session_state() without the "auth_cookie == 'true'" comparison: any
\* `authenticated` cookie counts
InitSessionStateAnyAuthCookie(sess, j) ==
    LET cookies == j
        j1 == CleanOldCookies(sess, j)
        s1 == InitDefaults(sess)
        parsed == Loads(cookies["user_info"].value)
        tried == /\ ~s1.authenticated
                 /\ cookies["authenticated"].present
                 /\ cookies["user_info"].present
                 /\ Len(cookies["user_info"].value) > 0
    IN  IF s1.authenticated
        THEN [sess |-> s1, jar |-> j1, out |-> "already_authenticated"]
        ELSE IF ~tried
        THEN [sess |-> s1, jar |-> j1, out |-> "nothing_to_restore"]
        ELSE IF parsed.ok
        THEN [sess |-> [s1 EXCEPT !.authenticated = TRUE, !.user_info = parsed.val],
              jar |-> j1, out |-> "restored"]
        ELSE [sess |-> [s1 EXCEPT !.authenticated = FALSE, !.user_info = PyNone],
              jar |-> CookieRemove(CookieRemove(j1, "authenticated"), "user_info"),
              out |-> "purged"]

\* init_session_state() without the "not st.session_state.authenticated" test:
\* the cookies are read on every run
InitSessionStateAlwaysRestores(sess, j) ==
    LET cookies == j
        j1 == CleanOldCookies(sess, j)
        s1 == InitDefaults(sess)
        parsed == Loads(cookies["user_info"].value)
    IN  IF ~RestoreTried([s1 EXCEPT !.authenticated = FALSE], cookies)
        THEN [sess |-> s1, jar |-> j1,
              out |-> IF s1.authenticated THEN "already_authenticated" ELSE "nothing_to_restore"]
        ELSE IF parsed.ok
        THEN [sess |-> [s1 EXCEPT !.authenticated = TRUE, !.user_info = parsed.val],
              jar |-> j1, out |-> "restored"]
        ELSE [sess |-> [s1 EXCEPT !.authenticated = FALSE, !.user_info = PyNone],
              jar |-> CookieRemove(CookieRemove(j1, "authenticated"), "user_info"),
              out |-> "purged"]

\* init_session_state() that ends the login of an authenticated session
\* whose `authenticated` cookie is gone
InitSessionStateFollowsCookies(sess, j) ==
    LET cookies == j
        j1 == CleanOldCookies(sess, j)
        s1 == InitDefaults(sess)
        parsed == Loads(cookies["user_info"].value)
    IN  IF s1.authenticated /\ ~cookies["authenticated"].present
        THEN [sess |-> [s1 EXCEPT !.authenticated = FALSE, !.user_info = PyNone],
              jar |-> j1, out |-> "nothing_to_restore"]
        ELSE IF s1.authenticated
        THEN [sess |-> s1, jar |-> j1, out |-> "already_authenticated"]
        ELSE IF ~RestoreTried(s1, cookies)
        THEN [sess |-> s1, jar |-> j1, out |-> "nothing_to_restore"]
        ELSE IF parsed.ok
        THEN [sess |-> [s1 EXCEPT !.authenticated = TRUE, !.user_info = parsed.val],
              jar |-> j1, out |-> "restored"]
        ELSE [sess |-> [s1 EXCEPT !.authenticated = FALSE, !.user_info = PyNone],
              jar |-> CookieRemove(CookieRemove(j1, "authenticated"), "user_info"),
              out |-> "purged"]

\* init_session_state() that writes the cookies again from a session that is
\* already authenticated
InitSessionStateRepersists(sess, j) ==
    LET cookies == j
        j1 == CleanOldCookies(sess, j)
        s1 == InitDefaults(sess)
        parsed == Loads(cookies["user_info"].value)
    IN  IF s1.authenticated
        THEN [sess |-> s1,
              jar |-> CookieSet(CookieSet(j1, "authenticated", TrueText, CookieMaxAge, TRUE, "Strict"),
                                "user_info", Dumps(s1.user_info), CookieMaxAge, TRUE, "Strict"),
              out |-> "already_authenticated"]
        ELSE IF ~RestoreTried(s1, cookies)
        THEN [sess |-> s1, jar |-> j1, out |-> "nothing_to_restore"]
        ELSE IF parsed.ok
        THEN [sess |-> [s1 EXCEPT !.authenticated = TRUE, !.user_info = parsed.val],
              jar |-> j1, out |-> "restored"]
        ELSE [sess |-> [s1 EXCEPT !.authenticated = FALSE, !.user_info = PyNone],
              jar |-> CookieRemove(CookieRemove(j1, "authenticated"), "user_info"),
              out |-> "purged"]

\* init_session_state(): [sess, jar, out]
InitSessionState(sess, j) ==
    LET cookies == j
        j1 == CleanOldCookies(sess, j)
        s1 == InitDefaults(sess)
        parsed == Loads(cookies["user_info"].value)
    IN  IF s1.authenticated
        THEN [sess |-> s1, jar |-> j1, out |-> "already_authenticated"]
        ELSE IF ~RestoreTried(s1, cookies)
        THEN [sess |-> s1, jar |-> j1, out |-> "nothing_to_restore"]
        ELSE IF parsed.ok
        THEN [sess |-> [s1 EXCEPT !.authenticated = TRUE, !.user_info = parsed.val],
              jar |-> j1, out |-> "restored"]
        ELSE [sess |-> [s1 EXCEPT !.authenticated = FALSE, !.user_info = PyNone],
              jar |-> CookieRemove(CookieRemove(j1, "authenticated"), "user_info"),
              out |-> "purged"]

\* logout() that clears the session and leaves the cookies in the jar
LogoutKeepsCookies(sess, j) ==
    [sess |-> [keys |-> sess.keys \cup {"authenticated", "user_info", "auth_code_processed"},
               authenticated |-> FALSE,
               user_info |-> PyNone,
               auth_code_processed |-> FALSE],
     jar |-> j]

\* logout() that removes one cookie per call: the first of the two it finds
LogoutRemovesOneCookie(sess, j) ==
    [sess |-> [keys |-> sess.keys \cup {"authenticated", "user_info", "auth_code_processed"},
               authenticated |-> FALSE,
               user_info |-> PyNone,
               auth_code_processed |-> FALSE],
     jar |-> IF j["authenticated"].present THEN CookieRemove(j, "authenticated")
             ELSE CookieRemove(j, "user_info")]

\* logout() that removes the cookies and leaves the local session as it is
LogoutKeepsSession(sess, j) ==
    [sess |-> sess,
     jar |-> CookieRemove(CookieRemove(j, "authenticated"), "user_info")]

\* logout(), up to its st.rerun(): [sess, jar]
Logout(sess, j) ==
    [sess |-> [keys |-> sess.keys \cup {"authenticated", "user_info", "auth_code_processed"},
               authenticated |-> FALSE,
               user_info |-> PyNone,
               auth_code_processed |-> FALSE],
     jar |-> CookieRemove(CookieRemove(j, "authenticated"), "user_info")]

-----------------------------------------------------------------------------
(* The exchange. A provider result is [kind, has_claims, claims]:           *)
(*   kind = "token"     the result holds an access_token                    *)
(*   kind = "rejected"  the result holds no access_token                    *)
(*   kind = "raise"     acquire_token_by_authorization_code raised          *)
(* with error / error_description (the provider's error fields, "" when     *)
(* absent) and text (str(e) of the exception raised).                       *)
(* set_outcome tells which cookie_controller.set call raises, if any.       *)

SetOutcomes == {"ok", "raise_first", "raise_second"}

\* the cookie writes with str(user_info) in place of json.dumps(user_info):
\* the Python repr of a dict is no JSON text
WriteAuthCookiesRepr(j, user_info, set_outcome) ==
    LET j1 == CookieSet(j, "authenticated", TrueText, CookieMaxAge, TRUE, "Strict")
        j2 == CookieSet(j1, "user_info", <<Tok("repr", "dict")>>, CookieMaxAge, TRUE, "Strict")
    IN  CASE set_outcome = "ok" -> j2
          [] set_outcome = "raise_second" -> j1
          [] OTHER -> j

\* the cookie writes with the 7-day lifetime of the earlier implementation
WriteAuthCookiesSevenDays(j, user_info, set_outcome) ==
    LET j1 == CookieSet(j, "authenticated", TrueText, 7 * CookieMaxAge, TRUE, "Strict")
        j2 == CookieSet(j1, "user_info", Dumps(user_info), 7 * CookieMaxAge, TRUE, "Strict")
    IN  CASE set_outcome = "ok" -> j2
          [] set_outcome = "raise_second" -> j1
          [] OTHER -> j

\* the two cookie writes inside the inner try / except
WriteAuthCookies(j, user_info, set_outcome) ==
    LET j1 == CookieSet(j, "authenticated", TrueText, CookieMaxAge, TRUE, "Strict")
        j2 == CookieSet(j1, "user_info", Dumps(user_info), CookieMaxAge, TRUE, "Strict")
    IN  CASE set_outcome = "ok" -> j2
          [] set_outcome = "raise_second" -> j1
          [] OTHER -> j

\* what a run shows to the visitor (st.error, st.warning, st.info) and what it
\* logs: a message is [kind, text, detail], text the fixed part of the string,
\* with {} where a value is interpolated, and detail the interpolated values
\* (the pictographs that open some of the strings are left out of text)
Msg(kind, text, detail) == [kind |-> kind, text |-> text, detail |-> detail]

\* str(e) of the exception a cookie_controller.set call raises
CookieErrorText == "cookie component error"

\* result.get(key, default) on the provider's error fields; "" is an absent key
ResultGet(value, default) == IF value = "" THEN default ELSE value

\* what the token branch of handle_auth_callback logs
CommitLog(set_outcome) ==
    IF set_outcome = "ok"
    THEN <<Msg("log_info", "Authentication successful - secure cookies set", <<>>)>>
    ELSE <<Msg("log_error", "Error setting cookies: {}", <<CookieErrorText>>)>>

\* what the else branch of handle_auth_callback logs and shows
RejectedLog(result) ==
    <<Msg("log_error", "Authentication failed: {} - {}",
          <<ResultGet(result.error, "Unknown error"),
            ResultGet(result.error_description, "No description")>>)>>

RejectedView == <<Msg("error", "Authentication failed. Please try again or contact support.", <<>>)>>

\* what the except branch of handle_auth_callback logs and shows
ExceptionLog(result) == <<Msg("log_error", "Exception during authentication: {}", <<result.text>>)>>

ExceptionView ==
    <<Msg("error", "An error occurred during authentication. Please try again later.", <<>>)>>

\* handle_auth_callback that marks the session authenticated before it looks
\* for the access token
HandleAuthCallbackMarksFirst(sess, j, result, set_outcome) ==
    LET s0 == [sess EXCEPT !.keys = @ \cup {"authenticated"}, !.authenticated = TRUE] IN
    IF result.kind = "token"
    THEN LET claims == IF result.has_claims THEN result.claims ELSE PyDict(<<>>)
             s1 == [s0 EXCEPT !.keys = @ \cup {"user_info"}, !.user_info = claims]
         IN  [sess |-> s1, jar |-> WriteAuthCookies(j, s1.user_info, set_outcome),
              ret |-> "True",
              out |-> IF set_outcome = "ok" THEN "committed" ELSE "committed_cookie_error",
              view |-> <<>>, log |-> CommitLog(set_outcome)]
    ELSE IF result.kind = "rejected"
    THEN [sess |-> s0, jar |-> j, ret |-> "False", out |-> "rejected",
          view |-> RejectedView, log |-> RejectedLog(result)]
    ELSE [sess |-> s0, jar |-> j, ret |-> "False", out |-> "exception",
          view |-> ExceptionView, log |-> ExceptionLog(result)]

\* handle_auth_callback(auth_code, cookie_controller): [sess, jar, ret, out, view, log]
HandleAuthCallback(sess, j, result, set_outcome) ==
    IF result.kind = "token"
    THEN LET claims == IF result.has_claims THEN result.claims ELSE PyDict(<<>>)
             s1 == [sess EXCEPT !.keys = @ \cup {"authenticated", "user_info"},
                                !.authenticated = TRUE,
                                !.user_info = claims]
         IN  [sess |-> s1, jar |-> WriteAuthCookies(j, s1.user_info, set_outcome),
              ret |-> "True",
              out |-> IF set_outcome = "ok" THEN "committed" ELSE "committed_cookie_error",
              view |-> <<>>, log |-> CommitLog(set_outcome)]
    ELSE IF result.kind = "rejected"
    THEN [sess |-> sess, jar |-> j, ret |-> "False", out |-> "rejected",
          view |-> RejectedView, log |-> RejectedLog(result)]
    ELSE [sess |-> sess, jar |-> j, ret |-> "False", out |-> "exception",
          view |-> ExceptionView, log |-> ExceptionLog(result)]

\* what handle_auth_flow shows when handle_auth_callback returns False
FlowFailedView == <<Msg("error", "Authentication failed. Please try again.", <<>>)>>

\* what handle_auth_flow shows when its try block raises e: str(e) is interpolated
FlowExceptionView(text) == <<Msg("error", "Authentication error: {}", <<text>>)>>

\* handle_auth_flow() that tests the one-shot flag alone, not `authenticated`
HandleAuthFlowIgnoresAuthenticated(sess, j, q, result, set_outcome) ==
    IF q # NoCode /\ ~sess.auth_code_processed
    THEN LET s1 == [sess EXCEPT !.auth_code_processed = TRUE]
             cb == HandleAuthCallback(s1, j, result, set_outcome)
         IN  IF result.kind = "controller_raise"
             THEN [sess |-> [s1 EXCEPT !.auth_code_processed = FALSE], jar |-> j,
                   query |-> q, called |-> FALSE, next |-> "stop", out |-> "controller_raised",
                   view |-> FlowExceptionView(result.text), log |-> <<>>]
             ELSE IF cb.ret = "True"
             THEN [sess |-> cb.sess, jar |-> cb.jar, query |-> NoCode, called |-> TRUE,
                   next |-> "rerun", out |-> cb.out, view |-> cb.view, log |-> cb.log]
             ELSE [sess |-> [cb.sess EXCEPT !.auth_code_processed = FALSE], jar |-> cb.jar,
                   query |-> q, called |-> TRUE, next |-> "stop",
                   out |-> IF cb.ret = "False" THEN cb.out ELSE "callback_raised",
                   view |-> cb.view \o FlowFailedView, log |-> cb.log]
    ELSE [sess |-> sess, jar |-> j, query |-> q, called |-> FALSE,
          next |-> "continue", out |-> "skipped", view |-> <<>>, log |-> <<>>]

\* handle_auth_flow() that leaves the one-shot flag set when the exchange fails
HandleAuthFlowKeepsFlag(sess, j, q, result, set_outcome) ==
    IF q # NoCode /\ ~sess.authenticated /\ ~sess.auth_code_processed
    THEN LET s1 == [sess EXCEPT !.auth_code_processed = TRUE]
             cb == HandleAuthCallback(s1, j, result, set_outcome)
         IN  IF result.kind = "controller_raise"
             THEN [sess |-> s1, jar |-> j,
                   query |-> q, called |-> FALSE, next |-> "stop", out |-> "controller_raised",
                   view |-> FlowExceptionView(result.text), log |-> <<>>]
             ELSE IF cb.ret = "True"
             THEN [sess |-> cb.sess, jar |-> cb.jar, query |-> NoCode, called |-> TRUE,
                   next |-> "rerun", out |-> cb.out, view |-> cb.view, log |-> cb.log]
             ELSE [sess |-> cb.sess, jar |-> cb.jar,
                   query |-> q, called |-> TRUE, next |-> "stop",
                   out |-> IF cb.ret = "False" THEN cb.out ELSE "callback_raised",
                   view |-> cb.view \o FlowFailedView, log |-> cb.log]
    ELSE [sess |-> sess, jar |-> j, query |-> q, called |-> FALSE,
          next |-> "continue", out |-> "skipped", view |-> <<>>, log |-> <<>>]

\* handle_auth_flow() whose `except Exception` branch does not clear the
\* one-shot flag
HandleAuthFlowKeepsFlagOnException(sess, j, q, result, set_outcome) ==
    IF q # NoCode /\ ~sess.authenticated /\ ~sess.auth_code_processed
    THEN LET s1 == [sess EXCEPT !.auth_code_processed = TRUE]
             cb == HandleAuthCallback(s1, j, result, set_outcome)
         IN  IF result.kind = "controller_raise"
             THEN [sess |-> s1, jar |-> j,
                   query |-> q, called |-> FALSE, next |-> "stop", out |-> "controller_raised",
                   view |-> FlowExceptionView(result.text), log |-> <<>>]
             ELSE IF cb.ret = "True"
             THEN [sess |-> cb.sess, jar |-> cb.jar, query |-> NoCode, called |-> TRUE,
                   next |-> "rerun", out |-> cb.out, view |-> cb.view, log |-> cb.log]
             ELSE [sess |-> [cb.sess EXCEPT !.auth_code_processed = FALSE], jar |-> cb.jar,
                   query |-> q, called |-> TRUE, next |-> "stop",
                   out |-> IF cb.ret = "False" THEN cb.out ELSE "callback_raised",
                   view |-> cb.view \o FlowFailedView, log |-> cb.log]
    ELSE [sess |-> sess, jar |-> j, query |-> q, called |-> FALSE,
          next |-> "continue", out |-> "skipped", view |-> <<>>, log |-> <<>>]

\* handle_auth_flow(): [sess, jar, query, called, next, out, view, log];
\* next is "rerun" (st.rerun), "stop" (st.stop) or "continue" (falls through);
\* result.kind = "controller_raise": get_cookie_controller() raised inside the
\* try block, before handle_auth_callback was called
HandleAuthFlow(sess, j, q, result, set_outcome) ==
    IF q # NoCode /\ ~sess.authenticated /\ ~sess.auth_code_processed
    THEN LET s1 == [sess EXCEPT !.auth_code_processed = TRUE]
             cb == HandleAuthCallback(s1, j, result, set_outcome)
         IN  IF result.kind = "controller_raise"
             THEN [sess |-> [s1 EXCEPT !.auth_code_processed = FALSE], jar |-> j,
                   query |-> q, called |-> FALSE, next |-> "stop", out |-> "controller_raised",
                   view |-> FlowExceptionView(result.text), log |-> <<>>]
             ELSE IF cb.ret = "True"
             THEN [sess |-> cb.sess, jar |-> cb.jar, query |-> NoCode, called |-> TRUE,
                   next |-> "rerun", out |-> cb.out, view |-> cb.view, log |-> cb.log]
             ELSE [sess |-> [cb.sess EXCEPT !.auth_code_processed = FALSE], jar |-> cb.jar,
                   query |-> q, called |-> TRUE, next |-> "stop",
                   out |-> IF cb.ret = "False" THEN cb.out ELSE "callback_raised",
                   view |-> cb.view \o FlowFailedView, log |-> cb.log]
    ELSE [sess |-> sess, jar |-> j, query |-> q, called |-> FALSE,
          next |-> "continue", out |-> "skipped", view |-> <<>>, log |-> <<>>]

-----------------------------------------------------------------------------
(* Configuration *)

\* the configuration keys SSO.config resolves, in the order of its assignments
ConfigKeys == <<"AZURE_CLIENT_ID", "AZURE_CLIENT_SECRET", "AZURE_TENANT_ID", "REDIRECT_URI">>

KeySet == {ConfigKeys[i] : i \in 1..Len(ConfigKeys)}

\* the built-in default of a key: only REDIRECT_URI has one
DefaultOf(key) == IF key = "REDIRECT_URI" THEN PyStr("http://localhost:8501") ELSE PyNone

\* st.secrets.get(key, default): [raised, value]. Without a secrets file the
\* lookup raises FileNotFoundError
SecretsGet(e, key, default) ==
    IF ~e.secrets_found THEN [raised |-> TRUE, value |-> PyNone]
    ELSE [raised |-> FALSE,
          value |-> IF e.secrets[key] = PyNone THEN default ELSE e.secrets[key]]

\* _get_config(key, default): os.getenv, then st.secrets when that is None,
\* then `value if value else default`
GetConfig(e, key, default) ==
    LET env_value == e.env[key]
        looked == SecretsGet(e, key, default)
        value == IF env_value = PyNone /\ e.streamlit_available
                 THEN (IF looked.raised THEN default ELSE looked.value)
                 ELSE env_value
    IN  IF Truthy(value) THEN value ELSE default

\* the module-level assignments of SSO.config
ResolveConfig(e) ==
    [client_id |-> GetConfig(e, "AZURE_CLIENT_ID", DefaultOf("AZURE_CLIENT_ID")),
     client_secret |-> GetConfig(e, "AZURE_CLIENT_SECRET", DefaultOf("AZURE_CLIENT_SECRET")),
     tenant_id |-> GetConfig(e, "AZURE_TENANT_ID", DefaultOf("AZURE_TENANT_ID")),
     redirect_uri |-> GetConfig(e, "REDIRECT_URI", DefaultOf("REDIRECT_URI"))]

\* validate_config() that reports the tenant first
ValidateConfigTenantFirst(cfg) ==
    LET m1 == IF ~Truthy(cfg.tenant_id) THEN <<"AZURE_TENANT_ID">> ELSE <<>>
        m2 == IF ~Truthy(cfg.client_id) THEN Append(m1, "AZURE_CLIENT_ID") ELSE m1
        m3 == IF ~Truthy(cfg.client_secret) THEN Append(m2, "AZURE_CLIENT_SECRET") ELSE m2
    IN  [ok |-> m3 = <<>>, missing |-> m3]

\* validate_config(): [ok, missing]
ValidateConfig(cfg) ==
    LET m1 == IF ~Truthy(cfg.client_id) THEN <<"AZURE_CLIENT_ID">> ELSE <<>>
        m2 == IF ~Truthy(cfg.client_secret) THEN Append(m1, "AZURE_CLIENT_SECRET") ELSE m1
        m3 == IF ~Truthy(cfg.tenant_id) THEN Append(m2, "AZURE_TENANT_ID") ELSE m2
    IN  [ok |-> m3 = <<>>, missing |-> m3]

-----------------------------------------------------------------------------
(* RBAC queries the guards and the pages use. A query that raises (the      *)
(* attribute lookup .get on a value that is no dict) has ok = FALSE.        *)

\* get_user_roles() that keeps a list and drops everything else
GetUserRolesDropsScalars(sess) ==
    LET user_info == IF "user_info" \in sess.keys THEN sess.user_info ELSE PyDict(<<>>)
        roles == DictGet(user_info, "roles", PyList(<<>>))
    IN  IF ~IsDict(user_info) THEN [ok |-> FALSE, roles |-> <<>>]
        ELSE IF IsList(roles) THEN [ok |-> TRUE, roles |-> roles.items]
        ELSE [ok |-> TRUE, roles |-> <<>>]

\* get_user_roles(): [ok, roles]
GetUserRoles(sess) ==
    LET user_info == IF "user_info" \in sess.keys THEN sess.user_info ELSE PyDict(<<>>)
        roles == DictGet(user_info, "roles", PyList(<<>>))
    IN  IF ~IsDict(user_info) THEN [ok |-> FALSE, roles |-> <<>>]
        ELSE IF IsList(roles) THEN [ok |-> TRUE, roles |-> roles.items]
        ELSE [ok |-> TRUE, roles |-> IF Truthy(roles) THEN <<roles>> ELSE <<>>]

\* has_any_role(required_roles): [ok, val]
HasAnyRole(sess, required) ==
    LET r == GetUserRoles(sess) IN
    [ok |-> r.ok,
     val |-> \E i \in 1..Len(required) : \E k \in 1..Len(r.roles) : r.roles[k] = PyStr(required[i])]

\* class Role and class Permission: the values, in declaration order
RoleValues == <<"Admin", "Superuser", "User">>
PermissionValues == <<"view_analytics", "view_settings", "manage_users", "edit_settings">>

\* x in xs, for a Python list xs
InList(x, xs) == \E i \in 1..Len(xs) : xs[i] = x

ROLE_PERMISSIONS ==
    [r \in {RoleValues[i] : i \in 1..Len(RoleValues)} |->
        CASE r = "Admin" -> <<"view_analytics", "view_settings", "manage_users", "edit_settings">>
          [] r = "Superuser" -> <<"view_analytics", "view_settings", "edit_settings">>
          [] r = "User" -> <<"view_analytics">>]

\* Role(role_str) finds a member (FALSE stands for ValueError)
IsRole(role_str) == role_str.t = "str" /\ InList(role_str.s, RoleValues)

RECURSIVE HasPermissionFrom(_, _, _)

\* the for loop of has_permission over user_roles[i..]
HasPermissionFrom(user_roles, i, permission) ==
    IF i > Len(user_roles) THEN FALSE
    ELSE IF IsRole(user_roles[i]) /\ InList(permission, ROLE_PERMISSIONS[user_roles[i].s])
    THEN TRUE
    ELSE HasPermissionFrom(user_roles, i + 1, permission)

\* has_permission that takes the roles in order and stops at the first one
\* that is no Role: the ValueError ends the loop
HasPermissionStopsAtUnknown(sess, permission) ==
    LET r == GetUserRoles(sess)
        known == {i \in 1..Len(r.roles) : \A k \in 1..i : IsRole(r.roles[k])}
    IN  [ok |-> r.ok,
         val |-> \E i \in known : InList(permission, ROLE_PERMISSIONS[r.roles[i].s])]

\* has_permission that looks at the first role only
HasPermissionFirstRole(sess, permission) ==
    LET r == GetUserRoles(sess) IN
    [ok |-> r.ok,
     val |-> /\ Len(r.roles) > 0 /\ IsRole(r.roles[1])
             /\ InList(permission, ROLE_PERMISSIONS[r.roles[1].s])]

\* has_permission(permission): [ok, val]
HasPermission(sess, permission) ==
    LET r == GetUserRoles(sess) IN
    [ok |-> r.ok, val |-> HasPermissionFrom(r.roles, 1, permission)]

\* get_highest_role() that returns the first role of the list that is a Role
GetHighestRoleFirstListed(sess) ==
    LET r == GetUserRoles(sess)
        known == {i \in 1..Len(r.roles) : IsRole(r.roles[i])}
    IN  [ok |-> r.ok,
         val |-> IF known = {} THEN "None"
                 ELSE r.roles[CHOOSE i \in known : \A k \in known : i <= k].s]

\* get_highest_role(): [ok, val]; val is the Role's value, or "None"
GetHighestRole(sess) ==
    LET r == GetUserRoles(sess) IN
    [ok |-> r.ok,
     val |-> IF InList(PyStr("Admin"), r.roles) THEN "Admin"
             ELSE IF InList(PyStr("Superuser"), r.roles) THEN "Superuser"
             ELSE IF InList(PyStr("User"), r.roles) THEN "User"
             ELSE "None"]

\* get_accessible_pages() with the Users entry derived from edit_settings
GetAccessiblePagesUsersByEdit(sess) ==
    [ok |-> GetUserRoles(sess).ok,
     val |-> [Home |-> TRUE,
              Analytics |-> HasPermission(sess, "view_analytics").val,
              Settings |-> HasPermission(sess, "view_settings").val,
              Users |-> HasPermission(sess, "edit_settings").val]]

\* get_accessible_pages(): [ok, val]
GetAccessiblePages(sess) ==
    [ok |-> GetUserRoles(sess).ok,
     val |-> [Home |-> TRUE,
              Analytics |-> HasPermission(sess, "view_analytics").val,
              Settings |-> HasPermission(sess, "view_settings").val,
              Users |-> HasPermission(sess, "manage_users").val]]

\* get_user_name(): [ok, val]
GetUserName(sess) ==
    LET user_info == IF GetAuthenticated(sess)
                     THEN (IF "user_info" \in sess.keys THEN sess.user_info ELSE PyDict(<<>>))
                     ELSE PyNone
    IN  IF ~Truthy(user_info) THEN [ok |-> TRUE, val |-> PyStr("User")]
        ELSE IF ~IsDict(user_info) THEN [ok |-> FALSE, val |-> PyNone]
        ELSE [ok |-> TRUE, val |-> DictGet(user_info, "name", PyStr("User"))]

-----------------------------------------------------------------------------
(* Access guards: the decision the wrapper takes before the page body       *)

RECURSIVE Join(_, _)

\* sep.join(xs) for a list xs of str: the parts of the joined string in order
Join(sep, xs) ==
    IF Len(xs) = 0 THEN <<>>
    ELSE IF Len(xs) = 1 THEN <<xs[1].s>>
    ELSE <<xs[1].s, sep>> \o Join(sep, Tail(xs))

\* the list of str values (role.value, perm.value) as Python str objects
StrList(values) == [i \in 1..Len(values) |-> PyStr(values[i])]

\* the st.markdown that hides the sidebar entries after the first
HideSidebarPages == Msg("markdown", "[data-testid=stSidebarNav] li:nth-child(n+2) display: none", <<>>)

\* _show_auth_error(), and the same three calls in require_authentication
ShowAuthError ==
    <<HideSidebarPages,
      Msg("error", "You must be logged in to access this page.", <<>>),
      Msg("info", "Please log in using the **Home** page from the sidebar.", <<>>)>>

ContactCaption ==
    <<Msg("divider", "", <<>>),
      Msg("caption", "If you believe this is an error, please contact your system administrator.", <<>>)>>

NoRolesInfo == Msg("info", "You have no roles assigned. Contact your administrator.", <<>>)

\* _show_permission_error(required_roles): [ok, view]; ok = FALSE when
\* ', '.join(user_roles) raises TypeError on a role that is no str, and view
\* is then what was rendered before
ShowPermissionError(sess, required_roles) ==
    LET user_roles == GetUserRoles(sess).roles
        head == <<HideSidebarPages,
                  Msg("error", "Access Denied", <<>>),
                  Msg("warning", "This page requires **{}** role.",
                      Join(" or ", StrList(required_roles)))>>
    IN  IF Len(user_roles) = 0
        THEN [ok |-> TRUE, view |-> head \o <<NoRolesInfo>> \o ContactCaption]
        ELSE IF \E i \in 1..Len(user_roles) : user_roles[i].t # "str"
        THEN [ok |-> FALSE, view |-> head]
        ELSE [ok |-> TRUE,
              view |-> head \o <<Msg("info", "Your current role(s): **{}**",
                                     Join(", ", user_roles))>> \o ContactCaption]

\* _show_permission_error_for_permissions(missing_permissions): the view
ShowPermissionErrorForPermissions(sess, missing_permissions) ==
    LET user_role == GetHighestRole(sess).val IN
    <<HideSidebarPages,
      Msg("error", "Access Denied", <<>>),
      Msg("warning", "This page requires the following permission(s): **{}**",
          Join(", ", StrList(missing_permissions)))>>
    \o <<IF user_role # "None"
          THEN Msg("info", "Your current role: **{}**", <<user_role>>)
          ELSE NoRolesInfo>>
    \o ContactCaption

\* require_authentication(func).wrapper that tests for the key in the session
\* state, not for its value
RequireAuthenticationChecksKey(sess) ==
    IF "authenticated" \notin sess.keys THEN "deny_login" ELSE "pass"

\* require_authentication(func).wrapper
RequireAuthentication(sess) ==
    IF ~GetAuthenticated(sess) THEN "deny_login" ELSE "pass"

\* require_role(*required_roles)(func).wrapper without "First check
\* authentication"
RequireRoleSkipsAuthentication(sess, required) ==
    IF ~HasAnyRole(sess, required).ok THEN "crash"
    ELSE IF ~HasAnyRole(sess, required).val THEN "deny_role"
    ELSE "pass"

\* require_role(*required_roles)(func).wrapper with all() in place of any():
\* the caller must hold every required role
RequireRoleAll(sess, required) ==
    LET r == GetUserRoles(sess) IN
    IF ~GetAuthenticated(sess) THEN "deny_login"
    ELSE IF ~r.ok THEN "crash"
    ELSE IF ~(\A i \in 1..Len(required) : InList(PyStr(required[i]), r.roles)) THEN "deny_role"
    ELSE "pass"

\* require_role(*required_roles)(func).wrapper
RequireRole(sess, required) ==
    IF ~GetAuthenticated(sess) THEN "deny_login"
    ELSE IF ~HasAnyRole(sess, required).ok THEN "crash"
    ELSE IF ~HasAnyRole(sess, required).val THEN "deny_role"
    ELSE "pass"

\* the list comprehension of require_permission: the required permissions
\* the caller lacks, in the order given
MissingPermissions(sess, required) ==
    SelectSeq(required, LAMBDA perm : ~HasPermission(sess, perm).val)

\* require_permission(*required_permissions)(func).wrapper that stops at the
\* first missing permission and reports that one
RequirePermissionFirstMissing(sess, required) ==
    LET missing == MissingPermissions(sess, required) IN
    IF ~GetAuthenticated(sess) THEN [out |-> "deny_login", missing |-> <<>>]
    ELSE IF Len(required) > 0 /\ ~HasPermission(sess, required[1]).ok
    THEN [out |-> "crash", missing |-> <<>>]
    ELSE IF Len(missing) > 0 THEN [out |-> "deny_permission", missing |-> <<missing[1]>>]
    ELSE [out |-> "pass", missing |-> <<>>]

\* require_permission(*required_permissions)(func).wrapper: [out, missing]
RequirePermission(sess, required) ==
    LET missing == MissingPermissions(sess, required) IN
    IF ~GetAuthenticated(sess) THEN [out |-> "deny_login", missing |-> <<>>]
    ELSE IF Len(required) > 0 /\ ~HasPermission(sess, required[1]).ok
    THEN [out |-> "crash", missing |-> <<>>]
    ELSE IF Len(missing) > 0 THEN [out |-> "deny_permission", missing |-> missing]
    ELSE [out |-> "pass", missing |-> <<>>]

\* a guard is [kind, required]: kind "authentication", "role" or "permission";
\* the wrapper's decision and what it renders: [out, view]
Guard(g, sess) ==
    LET out == CASE g.kind = "authentication" -> RequireAuthentication(sess)
                 [] g.kind = "role" -> RequireRole(sess, g.required)
                 [] g.kind = "permission" -> RequirePermission(sess, g.required).out
    IN  [out |-> out,
         view |-> CASE out = "deny_login" -> ShowAuthError
                    [] out = "deny_role" -> ShowPermissionError(sess, g.required).view
                    [] out = "deny_permission" ->
                         ShowPermissionErrorForPermissions(
                             sess, RequirePermission(sess, g.required).missing)
                    [] OTHER -> <<>>]

Pages == {"Home", "Analytics", "Settings", "Users"}

\* the decorator on main() of each script under pages/
PageGuard(p, sess) ==
    CASE p = "Analytics" -> RequireAuthentication(sess)
      [] p = "Settings" -> RequireRole(sess, <<"Admin", "Superuser">>)
      [] p = "Users" -> RequireRole(sess, <<"Admin">>)

\* the same decorators as guards [kind, required]
PageGuardOf(p) ==
    CASE p = "Analytics" -> [kind |-> "authentication", required |-> <<>>]
      [] p = "Settings" -> [kind |-> "role", required |-> <<"Admin", "Superuser">>]
      [] p = "Users" -> [kind |-> "role", required |-> <<"Admin">>]

-----------------------------------------------------------------------------
(* The environment: the identity provider and the browser                   *)

TabIds == {1, 2}

Alice == PyDict(<<PyEntry("name", PyStr("Alice")),
                  PyEntry("roles", PyList(<<PyStr("Superuser")>>))>>)
Carol == PyDict(<<PyEntry("name", PyStr("Carol")), PyEntry("roles", PyStr("Admin"))>>)

\* id_token_claims the provider may assert
ProviderClaims == {Alice, Carol}

\* what acquire_token_by_authorization_code may do with code c: a code is
\* honoured at most once by the provider
ProviderResults(c) ==
    {[kind |-> "rejected", has_claims |-> FALSE, claims |-> PyNone,
      error |-> "invalid_grant", error_description |-> "AADSTS70008: the code has expired",
      text |-> ""],
     [kind |-> "rejected", has_claims |-> FALSE, claims |-> PyNone,
      error |-> "", error_description |-> "", text |-> ""],
     [kind |-> "raise", has_claims |-> FALSE, claims |-> PyNone,
      error |-> "", error_description |-> "",
      text |-> "HTTPSConnectionPool: Max retries exceeded"]}
    \cup (IF c \in redeemed THEN {}
          ELSE {[kind |-> "token", has_claims |-> TRUE, claims |-> cl,
                 error |-> "", error_description |-> "", text |-> ""] : cl \in ProviderClaims}
               \cup {[kind |-> "token", has_claims |-> FALSE, claims |-> PyNone,
                       error |-> "", error_description |-> "", text |-> ""]})

\* get_cookie_controller() raises inside handle_auth_flow's try block
ControllerFailure ==
    [kind |-> "controller_raise", has_claims |-> FALSE, claims |-> PyNone,
     error |-> "", error_description |-> "",
     text |-> "Could not find component streamlit_cookies_controller"]

\* what the try block of handle_auth_flow may meet for code c
FlowResults(c) == ProviderResults(c) \cup {ControllerFailure}

\* a user_info text that names an Admin without any exchange
ForgedText == Dumps(PyDict(<<PyEntry("roles", PyList(<<PyStr("Admin")>>))>>))

\* cookie values the browser side may put in the jar
ClientTexts(n) ==
    CASE n = "authenticated" -> {TrueText, <<LitTok("false")>>}
      [] n = "user_info" -> {<<>>, <<LBrace, StrTok("name")>>, <<LitTok("null")>>, ForgedText}
      [] OTHER -> {}

\* what a key holds in the environment (os.getenv: None when unset) and in
\* the secret store (None: the key is absent)
EnvValues == {PyNone, PyStr(""), PyStr("from-env")}
SecretValues == {PyNone, PyStr("from-secrets")}

\* the deployments the request handlers run in: the four keys in the
\* environment (a .env file), or the client secret left out, and no secrets file
DeployedEnvirons ==
    {[env |-> [k \in KeySet |-> IF k \in unset THEN PyNone ELSE PyStr("from-env")],
      secrets |-> [k \in KeySet |-> PyNone],
      secrets_found |-> FALSE, streamlit_available |-> TRUE] :
        unset \in {{}, {"AZURE_CLIENT_SECRET"}}}

\* the configuration as resolved when SSO.config is imported
Configs == {ResolveConfig(e) : e \in DeployedEnvirons}

-----------------------------------------------------------------------------
(* State machine *)

\* the record `last` holds before any step: op and tab name the step, out its
\* outcome; arg and val are the argument and the value of a query
NoStep ==
    [op |-> "start", tab |-> 0, out |-> "", fresh |-> FALSE, auth |-> FALSE,
     code |-> NoCode, view |-> <<>>, log |-> <<>>, arg |-> <<>>, val |-> PyNone]

Init ==
    /\ tabs = {1}
    /\ config \in Configs
    /\ environ \in {e \in DeployedEnvirons : ResolveConfig(e) = config}
    /\ sessions = [t \in TabIds |-> FreshSession]
    /\ jar \in {EmptyJar, CookieSet(EmptyJar, "session_id", <<StrTok("old")>>, 0, FALSE, "")}
    /\ query = [t \in TabIds |-> NoCode]
    /\ page = [t \in TabIds |-> "Home"]
    /\ pc = [t \in TabIds |-> "idle"]
    /\ click = [t \in TabIds |-> FALSE]
    /\ redeemed = {}
    /\ exchanges = [c \in Codes |-> 0]
    /\ last = NoStep

Resting(t) == pc[t] \in {"idle", "shown"}

\* the record of a browser event of tab t
Event(op, t) == [NoStep EXCEPT !.op = op, !.tab = t]

\* the record of a step of tab t: the operation, its outcome, whether the
\* session was fresh (no key set) and authenticated and which `code` the query
\* held when the step began, what the step showed to the visitor and what it
\* logged
DidShowing(op, t, out, view, log) ==
    [NoStep EXCEPT !.op = op, !.tab = t, !.out = out,
                   !.fresh = sessions[t].keys = {},
                   !.auth = GetAuthenticated(sessions[t]),
                   !.code = query[t], !.view = view, !.log = log]

\* the record of a step that shows and logs nothing
Did(op, t, out) == DidShowing(op, t, out, <<>>, <<>>)

\* the browser loads a page URL (typed, reloaded, or the provider's redirect
\* back with ?code=): a new session context, whose script then runs
Load(t, p, c) ==
    /\ Resting(t)
    /\ c # NoCode => p = "Home"
    /\ sessions' = [sessions EXCEPT ![t] = FreshSession]
    /\ query' = [query EXCEPT ![t] = c]
    /\ page' = [page EXCEPT ![t] = p]
    /\ pc' = [pc EXCEPT ![t] = "run"]
    /\ click' = [click EXCEPT ![t] = FALSE]
    /\ last' = Event("load", t)
    /\ UNCHANGED <<tabs, environ, config, jar, redeemed, exchanges>>

\* navigation inside the app: the session is kept, the query is dropped
\* (the CSS that hides sidebar entries does not disable the pages)
Navigate(t, p) ==
    /\ Resting(t)
    /\ p # page[t]
    /\ query' = [query EXCEPT ![t] = NoCode]
    /\ page' = [page EXCEPT ![t] = p]
    /\ pc' = [pc EXCEPT ![t] = "run"]
    /\ click' = [click EXCEPT ![t] = FALSE]
    /\ last' = Event("navigate", t)
    /\ UNCHANGED <<tabs, environ, config, sessions, jar, redeemed, exchanges>>

\* Streamlit re-runs the script of the page, on a widget event (cl: the
\* Logout button, when the last run rendered it) or a component update
Rerun(t, cl) ==
    /\ Resting(t)
    /\ cl => pc[t] = "shown"
    /\ pc' = [pc EXCEPT ![t] = "run"]
    /\ click' = [click EXCEPT ![t] = cl]
    /\ last' = Event("rerun", t)
    /\ UNCHANGED <<tabs, environ, config, sessions, jar, query, page, redeemed, exchanges>>

\* app.main(), first statement: init_session_state()
HomeInit(t) ==
    /\ pc[t] = "run" /\ page[t] = "Home"
    /\ LET r == InitSessionState(sessions[t], jar) IN
         /\ sessions' = [sessions EXCEPT ![t] = r.sess]
         /\ jar' = r.jar
         /\ last' = Did("init_session_state", t, r.out)
    /\ pc' = [pc EXCEPT ![t] = "inited"]
    /\ UNCHANGED <<tabs, environ, config, query, page, click, redeemed, exchanges>>

\* what app.main() does between init_session_state and handle_auth_flow:
\* "crash" (has_permission raises), "config_error" (st.stop) or "go"
HomePreamble(sess, cfg) ==
    IF sess.authenticated /\ ~GetUserRoles(sess).ok THEN "crash"
    ELSE IF ~ValidateConfig(cfg).ok THEN "config_error"
    ELSE "go"

FlowCalls(sess, q) == HandleAuthFlow(sess, jar, q, CHOOSE r \in ProviderResults(q) : TRUE, "ok").called

\* app.main() up to handle_auth_flow(), which does not call the exchange
HomeFlowSkip(t) ==
    /\ pc[t] = "inited"
    /\ LET pre == HomePreamble(sessions[t], config) IN
         /\ pre = "go" => ~FlowCalls(sessions[t], query[t])
         /\ pc' = [pc EXCEPT ![t] = IF pre = "go" THEN "flowed" ELSE "idle"]
         /\ last' = IF pre = "go" THEN Did("handle_auth_flow", t, "skipped")
                    ELSE Did("main", t, pre)
    /\ UNCHANGED <<tabs, environ, config, sessions, jar, query, page, click, redeemed, exchanges>>

\* app.main() up to handle_auth_flow(), which calls handle_auth_callback
HomeFlowExchange(t, result, set_outcome) ==
    /\ pc[t] = "inited"
    /\ HomePreamble(sessions[t], config) = "go"
    /\ FlowCalls(sessions[t], query[t])
    /\ exchanges[query[t]] < MaxExchanges
    /\ result \in FlowResults(query[t])
    /\ result.kind # "token" => set_outcome = "ok"
    /\ LET f == HandleAuthFlow(sessions[t], jar, query[t], result, set_outcome) IN
         /\ sessions' = [sessions EXCEPT ![t] = f.sess]
         /\ jar' = f.jar
         /\ query' = [query EXCEPT ![t] = f.query]
         /\ pc' = [pc EXCEPT ![t] = IF f.next = "rerun" THEN "run" ELSE "idle"]
         /\ click' = [click EXCEPT ![t] = FALSE]
         /\ last' = DidShowing("handle_auth_flow", t, f.out, f.view, f.log)
         /\ exchanges' = [exchanges EXCEPT ![query[t]] = IF f.called THEN @ + 1 ELSE @]
    /\ redeemed' = IF result.kind = "token" THEN redeemed \cup {query[t]} ELSE redeemed
    /\ UNCHANGED <<tabs, environ, config, page>>

\* whether the header of a page or of the dashboard renders without raising
HeaderRenders(sess) == GetUserName(sess).ok

\* app.main(), the end: render_login_page() or render_dashboard(), whose
\* Logout button calls logout() in the run its click triggered
HomeRender(t) ==
    /\ pc[t] = "flowed"
    /\ IF ~sessions[t].authenticated
       THEN /\ pc' = [pc EXCEPT ![t] = "idle"]
            /\ last' = Did("render", t, "login_page")
            /\ UNCHANGED <<sessions, jar, click>>
       ELSE IF ~HeaderRenders(sessions[t]) \/ ~GetUserRoles(sessions[t]).ok
       THEN /\ pc' = [pc EXCEPT ![t] = "idle"]
            /\ last' = Did("render", t, "crash")
            /\ UNCHANGED <<sessions, jar, click>>
       ELSE IF click[t]
       THEN LET r == Logout(sessions[t], jar) IN
            /\ sessions' = [sessions EXCEPT ![t] = r.sess]
            /\ jar' = r.jar
            /\ pc' = [pc EXCEPT ![t] = "run"]
            /\ click' = [click EXCEPT ![t] = FALSE]
            /\ last' = Did("logout", t, "home")
       ELSE /\ pc' = [pc EXCEPT ![t] = "shown"]
            /\ last' = Did("render", t, "dashboard")
            /\ UNCHANGED <<sessions, jar, click>>
    /\ UNCHANGED <<tabs, environ, config, query, page, redeemed, exchanges>>

\* a script under pages/: the guard wrapper, which runs before main()'s body
PageGuardStep(t) ==
    /\ pc[t] = "run" /\ page[t] # "Home"
    /\ LET g == PageGuard(page[t], sessions[t]) IN
         /\ pc' = [pc EXCEPT ![t] = IF g = "pass" THEN "body" ELSE "idle"]
         /\ last' = DidShowing("guard", t, g, Guard(PageGuardOf(page[t]), sessions[t]).view, <<>>)
    /\ UNCHANGED <<tabs, environ, config, sessions, jar, query, page, click, redeemed, exchanges>>

\* a script under pages/: main()'s body: init_session_state(), then
\* render_authenticated_header() with its Logout button
PageBody(t) ==
    /\ pc[t] = "body"
    /\ LET r == InitSessionState(sessions[t], jar)
           lo == Logout(r.sess, r.jar)
       IN  IF ~HeaderRenders(r.sess)
           THEN /\ sessions' = [sessions EXCEPT ![t] = r.sess]
                /\ jar' = r.jar
                /\ pc' = [pc EXCEPT ![t] = "idle"]
                /\ click' = click
                /\ last' = Did("page_body", t, "crash")
           ELSE IF click[t]
           THEN /\ sessions' = [sessions EXCEPT ![t] = lo.sess]
                /\ jar' = lo.jar
                /\ pc' = [pc EXCEPT ![t] = "run"]
                /\ click' = [click EXCEPT ![t] = FALSE]
                /\ last' = Did("logout", t, "page")
           ELSE /\ sessions' = [sessions EXCEPT ![t] = r.sess]
                /\ jar' = r.jar
                /\ pc' = [pc EXCEPT ![t] = "shown"]
                /\ click' = click
                /\ last' = Did("page_body", t, r.out)
    /\ UNCHANGED <<tabs, environ, config, query, page, redeemed, exchanges>>

\* the browser side writes a cookie (the jar is under the visitor's control,
\* attributes included)
ClientSetCookie(n, txt) ==
    /\ txt \in ClientTexts(n)
    /\ jar' = CookieSet(jar, n, txt, CookieMaxAge, TRUE, "Strict")
    /\ jar' # jar
    /\ last' = Event("client", 0)
    /\ UNCHANGED <<tabs, environ, config, sessions, query, page, pc, click, redeemed, exchanges>>

\* a cookie expires or is deleted in the browser
ClientDropCookie(n) ==
    /\ jar[n].present
    /\ jar' = CookieRemove(jar, n)
    /\ last' = Event("client", 0)
    /\ UNCHANGED <<tabs, environ, config, sessions, query, page, pc, click, redeemed, exchanges>>

AllClientTexts == UNION {ClientTexts(n) : n \in CookieNames}

Next ==
    \/ \E t \in tabs, p \in Pages, c \in Codes \cup {NoCode} : Load(t, p, c)
    \/ \E t \in tabs, p \in Pages : Navigate(t, p)
    \/ \E t \in tabs, cl \in BOOLEAN : Rerun(t, cl)
    \/ \E t \in tabs : HomeInit(t)
    \/ \E t \in tabs : HomeFlowSkip(t)
    \/ \E t \in tabs, set_outcome \in SetOutcomes :
          \E result \in FlowResults(query[t]) : HomeFlowExchange(t, result, set_outcome)
    \/ \E t \in tabs : HomeRender(t)
    \/ \E t \in tabs : PageGuardStep(t)
    \/ \E t \in tabs : PageBody(t)
    \/ \E n \in CookieNames, txt \in AllClientTexts : ClientSetCookie(n, txt)
    \/ \E n \in CookieNames : ClientDropCookie(n)

Spec == Init /\ [][Next]_vars

-----------------------------------------------------------------------------
(* The RBAC queries and the guards on their own: one session, whose roles   *)
(* claim is drawn from every shape the claim takes, is asked each query and *)
(* put in front of each guard.                                              *)

\* the longest list of roles in a roles claim
MaxRoles == 2

\* role names a claim may carry: the three of class Role and one that is none
RoleStrings == {"Admin", "Superuser", "User", "Guest"}

\* the values of the `roles` claim: a list of role names, one role name as a
\* scalar, the empty string, null
RoleClaims ==
    {PyList(xs) : xs \in UNION {[1..n -> {PyStr(x) : x \in RoleStrings}] : n \in 0..MaxRoles}}
    \cup {PyStr(x) : x \in RoleStrings \cup {""}}
    \cup {PyNone}

\* user_info of an authenticated session: claims without roles, claims with
\* each roles value, nothing at all (json.loads of the text null)
RbacUserInfos ==
    {PyDict(<<>>), PyNone} \cup ProviderClaims
    \cup {PyDict(<<PyEntry("roles", r)>>) : r \in RoleClaims}

\* the sessions the queries and guards meet: before init_session_state,
\* anonymous after it, authenticated
RbacSessions ==
    {FreshSession, InitDefaults(FreshSession)}
    \cup {[InitDefaults(FreshSession) EXCEPT !.authenticated = TRUE, !.user_info = u] :
             u \in RbacUserInfos}

\* the guards tried: [kind, required]
RbacGuards ==
    {[kind |-> "authentication", required |-> <<>>],
     [kind |-> "role", required |-> <<>>],
     [kind |-> "permission", required |-> <<>>],
     [kind |-> "role", required |-> <<"Admin">>],
     [kind |-> "role", required |-> <<"Admin", "Superuser">>],
     [kind |-> "permission", required |-> <<"manage_users">>],
     [kind |-> "permission", required |-> <<"view_analytics", "edit_settings">>],
     [kind |-> "permission", required |-> <<"view_settings", "manage_users", "edit_settings">>]}

RbacInit ==
    /\ tabs = {1}
    /\ config \in {c \in Configs : ValidateConfig(c).ok}
    /\ environ \in {e \in DeployedEnvirons : ResolveConfig(e) = config}
    /\ sessions \in {[t \in TabIds |-> IF t = 1 THEN sess ELSE FreshSession] : sess \in RbacSessions}
    /\ jar = EmptyJar
    /\ query = [t \in TabIds |-> NoCode]
    /\ page = [t \in TabIds |-> "Home"]
    /\ pc = [t \in TabIds |-> "idle"]
    /\ click = [t \in TabIds |-> FALSE]
    /\ redeemed = {}
    /\ exchanges = [c \in Codes |-> 0]
    /\ last = NoStep

\* the record of a query of tab t: its argument and its value [ok, ...]
Asked(op, t, arg, val) == [NoStep EXCEPT !.op = op, !.tab = t, !.arg = arg, !.val = val,
                                         !.auth = GetAuthenticated(sessions[t])]

UnchangedButLast == UNCHANGED <<tabs, environ, config, sessions, jar, query, page, pc, click, redeemed, exchanges>>

AskUserRoles(t) ==
    /\ pc[t] = "idle"
    /\ last' = Asked("get_user_roles", t, <<>>, GetUserRoles(sessions[t]))
    /\ UnchangedButLast

AskHighestRole(t) ==
    /\ pc[t] = "idle"
    /\ last' = Asked("get_highest_role", t, <<>>, GetHighestRole(sessions[t]))
    /\ UnchangedButLast

AskHasPermission(t, permission) ==
    /\ pc[t] = "idle"
    /\ last' = Asked("has_permission", t, <<permission>>, HasPermission(sessions[t], permission))
    /\ UnchangedButLast

AskAccessiblePages(t) ==
    /\ pc[t] = "idle"
    /\ last' = Asked("get_accessible_pages", t, <<>>, GetAccessiblePages(sessions[t]))
    /\ UnchangedButLast

\* a function wrapped by guard g is called: the wrapper decides, renders the
\* denial and stops, or calls the function
GuardedCall(t, g) ==
    /\ pc[t] = "idle"
    /\ LET r == Guard(g, sessions[t]) IN
         /\ pc' = [pc EXCEPT ![t] = IF r.out = "pass" THEN "body" ELSE "idle"]
         /\ last' = [DidShowing("guard", t, r.out, r.view, <<>>) EXCEPT !.arg = g]
    /\ UNCHANGED <<tabs, environ, config, sessions, jar, query, page, click, redeemed, exchanges>>

\* the wrapped function runs
GuardedBody(t) ==
    /\ pc[t] = "body"
    /\ pc' = [pc EXCEPT ![t] = "idle"]
    /\ last' = [last EXCEPT !.op = "body", !.out = "ran", !.view = <<>>]
    /\ UNCHANGED <<tabs, environ, config, sessions, jar, query, page, click, redeemed, exchanges>>

RbacNext ==
    \/ \E t \in tabs : AskUserRoles(t)
    \/ \E t \in tabs : AskHighestRole(t)
    \/ \E t \in tabs, i \in 1..Len(PermissionValues) : AskHasPermission(t, PermissionValues[i])
    \/ \E t \in tabs : AskAccessiblePages(t)
    \/ \E t \in tabs, g \in RbacGuards : GuardedCall(t, g)
    \/ \E t \in tabs : GuardedBody(t)

SpecRbac == RbacInit /\ [][RbacNext]_vars

-----------------------------------------------------------------------------
(* SSO.config on its own: the environment and the secret store are drawn    *)
(* from every combination of values, the module is imported, and           *)
(* _get_config and validate_config are called.                              *)

\* the secret store as SSO.config meets it: streamlit not importable, no
\* secrets file, or a file with each key absent or present
SecretStores ==
    {[secrets |-> [k \in KeySet |-> PyNone], secrets_found |-> FALSE, streamlit_available |-> a] :
        a \in BOOLEAN}
    \cup {[secrets |-> sc, secrets_found |-> TRUE, streamlit_available |-> TRUE] :
             sc \in [KeySet -> SecretValues]}

Environs ==
    {[env |-> en, secrets |-> st.secrets, secrets_found |-> st.secrets_found,
      streamlit_available |-> st.streamlit_available] :
        en \in [KeySet -> EnvValues], st \in SecretStores}

\* `config` before SSO.config is imported
NoConfig == [client_id |-> PyNone, client_secret |-> PyNone, tenant_id |-> PyNone,
             redirect_uri |-> PyNone]

ConfigInit ==
    /\ tabs = {1}
    /\ environ \in Environs
    /\ config = NoConfig
    /\ sessions = [t \in TabIds |-> FreshSession]
    /\ jar = EmptyJar
    /\ query = [t \in TabIds |-> NoCode]
    /\ page = [t \in TabIds |-> "Home"]
    /\ pc = [t \in TabIds |-> "idle"]
    /\ click = [t \in TabIds |-> FALSE]
    /\ redeemed = {}
    /\ exchanges = [c \in Codes |-> 0]
    /\ last = NoStep

\* the record of a call of SSO.config: its arguments and its value
Called(op, arg, val) == [NoStep EXCEPT !.op = op, !.arg = arg, !.val = val]

\* `import SSO.config`: the module-level assignments run once
ImportConfig ==
    /\ config = NoConfig
    /\ config' = ResolveConfig(environ)
    /\ last' = Called("import_config", <<>>, PyNone)
    /\ UNCHANGED <<tabs, environ, sessions, jar, query, page, pc, click, redeemed, exchanges>>

AskGetConfig(key) ==
    /\ last' = Called("_get_config", <<key, DefaultOf(key)>>, GetConfig(environ, key, DefaultOf(key)))
    /\ UNCHANGED <<tabs, environ, config, sessions, jar, query, page, pc, click, redeemed, exchanges>>

AskValidateConfig ==
    /\ config # NoConfig
    /\ last' = Called("validate_config", <<>>, ValidateConfig(config))
    /\ UNCHANGED <<tabs, environ, config, sessions, jar, query, page, pc, click, redeemed, exchanges>>

ConfigNext ==
    \/ ImportConfig
    \/ \E key \in KeySet : AskGetConfig(key)
    \/ AskValidateConfig

SpecConfig == ConfigInit /\ [][ConfigNext]_vars

-----------------------------------------------------------------------------
(* Two tabs of one browser: two session contexts, each with its own         *)
(* st.session_state, that share the cookie jar. Both stay on the home page. *)

TabsInit ==
    /\ tabs = TabIds
    /\ config \in {c \in Configs : ValidateConfig(c).ok}
    /\ environ \in {e \in DeployedEnvirons : ResolveConfig(e) = config}
    /\ sessions = [t \in TabIds |-> FreshSession]
    /\ jar = EmptyJar
    /\ query = [t \in TabIds |-> NoCode]
    /\ page = [t \in TabIds |-> "Home"]
    /\ pc = [t \in TabIds |-> "idle"]
    /\ click = [t \in TabIds |-> FALSE]
    /\ redeemed = {}
    /\ exchanges = [c \in Codes |-> 0]
    /\ last = NoStep

TabsNext ==
    \/ \E t \in tabs, c \in {NoCode, 1} : Load(t, "Home", c)
    \/ \E t \in tabs, cl \in BOOLEAN : Rerun(t, cl)
    \/ \E t \in tabs : HomeInit(t)
    \/ \E t \in tabs : HomeFlowSkip(t)
    \/ \E t \in tabs, set_outcome \in SetOutcomes :
          \E result \in FlowResults(query[t]) : HomeFlowExchange(t, result, set_outcome)
    \/ \E t \in tabs : HomeRender(t)
    \/ \E n \in CookieNames : ClientDropCookie(n)

SpecTabs == TabsInit /\ [][TabsNext]_vars

-----------------------------------------------------------------------------
(* Properties *)

\* the step just taken was operation op of tab t
Just(op, t) == last.op = op /\ last.tab = t

AnonymousDefaults(sess) ==
    /\ sess.authenticated = FALSE
    /\ sess.user_info = PyNone
    /\ sess.auth_code_processed = FALSE

AuthCookiesAbsent(j) == ~j["authenticated"].present /\ ~j["user_info"].present

\* a cookie as handle_auth_callback writes it
CommittedCookie(value) ==
    [present |-> TRUE, value |-> value, max_age |-> 86400, secure |-> TRUE, samesite |-> "Strict"]

\* `authenticated` is "true" and `user_info` is there but does not parse
CorruptPair(j) ==
    /\ j["authenticated"].present /\ j["authenticated"].value = TrueText
    /\ j["user_info"].present /\ ~Loads(j["user_info"].value).ok

\* `authenticated` is "true" and `user_info` is there and parses
RestorablePair(j) ==
    /\ j["authenticated"].present /\ j["authenticated"].value = TrueText
    /\ j["user_info"].present /\ Loads(j["user_info"].value).ok

Committed == {"committed", "committed_cookie_error"}
Failed == {"rejected", "exception", "callback_raised"}

\* C1: handle_auth_flow invokes the exchange (handle_auth_callback) at most
\* once for each authorization code value, over every sequence of runs of
\* the home page, re-runs with the same code in the query included.
C1_ExchangeAtMostOncePerCode == \A c \in Codes : exchanges[c] <= 1

\* C2: no guard denies, as unauthenticated, a fresh session context whose
\* cookie jar holds the persisted login a commit wrote: the restore runs
\* before the guard reads the session.
C2_GuardReadsRestoredSession ==
    \A t \in tabs :
        ~ /\ Just("guard", t) /\ last.out = "deny_login" /\ last.fresh
          /\ jar["authenticated"] = CommittedCookie(TrueText)
          /\ \E cl \in ProviderClaims : jar["user_info"] = CommittedCookie(Dumps(cl))
          /\ InitSessionState(FreshSession, jar).out = "restored"

C4_CorruptCookiesArePurged ==
    \A t \in tabs :
        (Just("init_session_state", t) /\ ~last.auth) =>
            /\ ~CorruptPair(jar)
            /\ last.out = "purged" =>
                  /\ ~sessions[t].authenticated /\ sessions[t].user_info = PyNone
                  /\ AuthCookiesAbsent(jar)

\* C5: init_session_state turns a session that was not authenticated into an
\* authenticated one exactly when `authenticated` is "true" and `user_info`
\* is present and parses, and then user_info is the parsed cookie; in every
\* other combination the session stays anonymous.
C5_RestoreNeedsBothCookies ==
    \A t \in tabs :
        (Just("init_session_state", t) /\ ~last.auth) =>
            /\ sessions[t].authenticated <=> RestorablePair(jar)
            /\ sessions[t].authenticated =>
                  sessions[t].user_info = Loads(jar["user_info"].value).val
            /\ sessions[t].authenticated <=> last.out = "restored"

\* C5 witness: a restore that succeeded, from a session that was anonymous.
C5_Witness ==
    \E t \in tabs :
        /\ Just("init_session_state", t) /\ ~last.auth
        /\ sessions[t].authenticated /\ IsDict(sessions[t].user_info)

C7_LogoutEndsTheLogin ==
    \A t \in tabs :
        /\ Just("logout", t) =>
              /\ AnonymousDefaults(sessions[t])
              /\ AuthCookiesAbsent(jar)
              /\ pc[t] = "run"
              /\ ~InitSessionState(sessions[t], jar).sess.authenticated
        /\ (Just("init_session_state", t) /\ ~last.auth /\ AuthCookiesAbsent(jar)) =>
              ~sessions[t].authenticated

\* C7 witness: logout() has just run on a session that was authenticated.
C7_Witness == \E t \in tabs : Just("logout", t) /\ last.auth /\ AuthCookiesAbsent(jar)

\* C8: logout() is idempotent: in every reachable session and cookie state,
\* logout() applied twice gives the session and the jar it gives applied once.
C8_LogoutIdempotent ==
    \A t \in tabs :
        LET once == Logout(sessions[t], jar) IN
        /\ Logout(once.sess, once.jar) = once
        /\ Just("logout", t) => once = [sess |-> sessions[t], jar |-> jar]

\* C8 witness: logout() has just run from a page other than Home, on a
\* session that was authenticated, and a second call would change nothing.
C8_Witness ==
    \E t \in tabs :
        /\ Just("logout", t) /\ last.auth /\ last.out = "page"
        /\ Logout(sessions[t], jar) = [sess |-> sessions[t], jar |-> jar]

\* C9: init_session_state on a session that is already authenticated leaves
\* authenticated, user_info and auth_code_processed as they are and neither
\* rewrites nor removes the `authenticated` / `user_info` cookies, whatever
\* the jar holds.
C9_RestoreNoOpWhenAuthenticated ==
    \A t \in tabs :
        /\ GetAuthenticated(sessions[t]) =>
              LET r == InitSessionState(sessions[t], jar) IN
              /\ r.sess.authenticated = sessions[t].authenticated
              /\ r.sess.user_info = sessions[t].user_info
              /\ r.sess.auth_code_processed = sessions[t].auth_code_processed
              /\ r.jar["authenticated"] = jar["authenticated"]
              /\ r.jar["user_info"] = jar["user_info"]
        /\ (Just("init_session_state", t) /\ last.auth) =>
              sessions[t].authenticated /\ last.out = "already_authenticated"

\* C9 witness: init_session_state has run on an authenticated session while
\* the jar held a forged user_info that differs from the session's claims.
C9_Witness ==
    \E t \in tabs :
        /\ Just("init_session_state", t) /\ last.auth
        /\ sessions[t].user_info = Alice
        /\ jar["user_info"].present /\ jar["user_info"].value = ForgedText
        /\ jar["authenticated"].present /\ jar["authenticated"].value = TrueText

\* C10: a failed exchange (no access token, or the exchange raised) leaves
\* the session anonymous without claims, writes no cookie, and is reported by
\* handle_auth_callback as the return value False, not as an exception.
C10_FailedExchangeLeavesStateIntact ==
    \A t \in tabs :
        /\ (Just("handle_auth_flow", t) /\ last.out \in Failed) =>
              /\ ~sessions[t].authenticated
              /\ sessions[t].user_info = PyNone
              /\ last.out # "callback_raised"
        /\ (pc[t] = "inited" /\ HomePreamble(sessions[t], config) = "go"
                /\ FlowCalls(sessions[t], query[t])) =>
              \A result \in ProviderResults(query[t]) :
                  result.kind # "token" =>
                      LET s1 == [sessions[t] EXCEPT !.auth_code_processed = TRUE]
                          cb == HandleAuthCallback(s1, jar, result, "ok")
                      IN  cb.ret = "False" /\ cb.sess = s1 /\ cb.jar = jar

\* C10 witness: the first exchange of a code, which the provider rejected.
C10_Witness ==
    \E t \in tabs :
        /\ Just("handle_auth_flow", t) /\ last.out = "rejected"
        /\ query[t] \in Codes /\ exchanges[query[t]] = 1

-----------------------------------------------------------------------------
(* Properties of the exchange trigger, the guards and the RBAC queries *)

\* view holds a message of this kind with this fixed text
Shows(view, kind, text) == \E i \in 1..Len(view) : view[i].kind = kind /\ view[i].text = text

\* the values interpolated into the message of this kind and fixed text
Interpolated(view, kind, text) ==
    view[CHOOSE i \in 1..Len(view) : view[i].kind = kind /\ view[i].text = text].detail

\* the values of a sequence
Range(xs) == {xs[i] : i \in 1..Len(xs)}

\* C11: handle_auth_flow attempts the exchange only in a run whose query holds
\* a `code` and whose session is not authenticated after the restore; with a
\* `code` and an authenticated session it calls no exchange and leaves the
\* session, the claims, the query and the cookies as they are.
C11_ExchangeOnlyForAnonymousWithCode ==
    \A t \in tabs :
        /\ (Just("handle_auth_flow", t) /\ last.out # "skipped") =>
              last.code \in Codes /\ ~last.auth
        /\ (Just("handle_auth_flow", t) /\ last.auth) =>
              last.out = "skipped" /\ last.view = <<>>
        /\ (pc[t] = "inited" /\ sessions[t].authenticated /\ query[t] # NoCode) =>
              \A result \in FlowResults(query[t]), set_outcome \in SetOutcomes :
                  LET f == HandleAuthFlow(sessions[t], jar, query[t], result, set_outcome) IN
                  /\ ~f.called /\ f.next = "continue"
                  /\ f.sess = sessions[t] /\ f.jar = jar /\ f.query = query[t]

\* C11 witness: a request with a `code` reached handle_auth_flow with a
\* session the restore had authenticated, and no exchange was made.
C11_Witness ==
    \E t \in tabs :
        /\ Just("handle_auth_flow", t) /\ last.out = "skipped" /\ last.auth
        /\ last.code \in Codes /\ exchanges[last.code] = 0
        /\ sessions[t].user_info \in ProviderClaims

\* C12: in every step that is neither logout() nor the start of a new session
\* context, an authenticated session stays authenticated with the same
\* claims; logout() leaves it at the anonymous defaults; and the claims of a
\* session that is not authenticated change only when a restore or a login
\* commit authenticates it.
C12_AuthenticatedUntilLogout ==
    [][\A t \in tabs :
          LET newSession == last'.op = "load" /\ last'.tab = t
              loggedOut == last'.op = "logout" /\ last'.tab = t
          IN  /\ (GetAuthenticated(sessions[t]) /\ ~newSession /\ ~loggedOut) =>
                    /\ GetAuthenticated(sessions'[t])
                    /\ sessions'[t].user_info = sessions[t].user_info
              /\ loggedOut => GetAuthenticated(sessions[t]) /\ AnonymousDefaults(sessions'[t])
              /\ (~GetAuthenticated(sessions[t]) /\ ~newSession
                    /\ sessions'[t].user_info # sessions[t].user_info) =>
                    /\ GetAuthenticated(sessions'[t])
                    /\ last'.tab = t
                    /\ \/ last'.op = "init_session_state" /\ last'.out = "restored"
                       \/ last'.op = "page_body" /\ last'.out = "restored"
                       \/ last'.op = "handle_auth_flow" /\ last'.out \in Committed
      ]_vars

\* C12 witness: init_session_state has run on an authenticated session while
\* neither cookie was in the jar, and the session still holds Alice's login.
C12_Witness ==
    \E t \in tabs :
        /\ Just("init_session_state", t) /\ last.auth /\ AuthCookiesAbsent(jar)
        /\ sessions[t].authenticated /\ sessions[t].user_info = Alice

\* C13: a function wrapped by require_role(R1..Rn) runs only for a session
\* that is authenticated and holds one of R1..Rn; a session that is not
\* authenticated gets the login denial whatever its roles; a role denial
\* names every required role and every role the caller holds, or says that
\* no roles are assigned (require_role(Admin) with roles ["User"]: "Admin"
\* and "User").
C13_RoleGuard ==
    \A t \in tabs :
        (last.tab = t /\ last.op \in {"guard", "body"} /\ last.arg.kind = "role") =>
            LET required == last.arg.required
                roles == GetUserRoles(sessions[t]).roles
                holds == \E i \in 1..Len(required) : PyStr(required[i]) \in Range(roles)
                denied == /\ GetAuthenticated(sessions[t]) /\ IsDict(sessions[t].user_info)
                          /\ ~holds
            IN  /\ (pc[t] = "body" \/ last.op = "body") =>
                      /\ GetAuthenticated(sessions[t]) /\ IsDict(sessions[t].user_info)
                      /\ holds
                /\ (last.op = "guard" /\ ~GetAuthenticated(sessions[t])) =>
                      /\ last.out = "deny_login" /\ pc[t] = "idle"
                      /\ Shows(last.view, "error", "You must be logged in to access this page.")
                      /\ ~Shows(last.view, "error", "Access Denied")
                /\ (last.op = "guard" /\ denied) =>
                      /\ last.out = "deny_role" /\ pc[t] = "idle"
                      /\ Shows(last.view, "error", "Access Denied")
                      /\ Range(required) \subseteq
                            Range(Interpolated(last.view, "warning", "This page requires **{}** role."))
                /\ (last.op = "guard" /\ denied /\ roles # <<>>) =>
                      /\ {roles[k].s : k \in 1..Len(roles)} \subseteq
                            Range(Interpolated(last.view, "info", "Your current role(s): **{}**"))
                      /\ ~Shows(last.view, "info", "You have no roles assigned. Contact your administrator.")
                /\ (last.op = "guard" /\ denied /\ roles = <<>>) =>
                      Shows(last.view, "info", "You have no roles assigned. Contact your administrator.")
                /\ (last.op = "guard" /\ denied /\ required = <<"Admin">>
                        /\ roles = <<PyStr("User")>>) =>
                      /\ Interpolated(last.view, "warning", "This page requires **{}** role.") = <<"Admin">>
                      /\ Interpolated(last.view, "info", "Your current role(s): **{}**") = <<"User">>

\* C13 witness: require_role(Admin) has just denied a caller whose roles are
\* ["User"].
C13_Witness ==
    \E t \in tabs :
        /\ last.tab = t /\ last.op = "guard" /\ last.out = "deny_role"
        /\ last.arg = [kind |-> "role", required |-> <<"Admin">>]
        /\ GetUserRoles(sessions[t]).roles = <<PyStr("User")>>
        /\ pc[t] = "idle"

\* C14: the function wrapped by require_authentication (main() of the
\* Analytics page) is called exactly when the session is authenticated at the
\* time of the call; otherwise the login denial is rendered and the run stops
\* before any of the function runs.
C14_AuthenticationGuard ==
    \A t \in tabs :
        page[t] = "Analytics" =>
            /\ Just("guard", t) =>
                  /\ last.out = "pass" <=> last.auth
                  /\ last.out = "pass" => pc[t] = "body" /\ last.view = <<>>
                  /\ last.out # "pass" =>
                        /\ last.out = "deny_login" /\ pc[t] = "idle"
                        /\ Shows(last.view, "error", "You must be logged in to access this page.")
                        /\ Shows(last.view, "info",
                                 "Please log in using the **Home** page from the sidebar.")
            /\ pc[t] = "body" => GetAuthenticated(sessions[t])
            /\ (last.tab = t /\ (last.op = "page_body" \/ (last.op = "logout" /\ last.out = "page")))
                  => last.auth

\* C14 witness: the Analytics guard has denied a session that had logged out
\* (its `authenticated` key is set, to False).
C14_Witness ==
    \E t \in tabs :
        /\ page[t] = "Analytics" /\ Just("guard", t) /\ last.out = "deny_login"
        /\ ~last.fresh /\ pc[t] = "idle"

\* the fixed table of the specification: the permissions of each role
TableOf(role) ==
    CASE role = "Admin" -> {"view_analytics", "view_settings", "manage_users", "edit_settings"}
      [] role = "Superuser" -> {"view_analytics", "view_settings", "edit_settings"}
      [] role = "User" -> {"view_analytics"}
      [] OTHER -> {}

\* the roles claim of the session's claims, as the provider gave it
RolesClaim(sess) == DictGet(sess.user_info, "roles", PyList(<<>>))

\* some role string among R grants permission p by the table
Grants(R, p) == \E i \in 1..Len(R) : R[i].t = "str" /\ p \in TableOf(R[i].s)

\* the elements of required that the roles R do not grant, in order
Lacking(R, required) == SelectSeq(required, LAMBDA p : ~Grants(R, p))

\* the highest of the roles among R, or "None"
Highest(R) ==
    IF PyStr("Admin") \in Range(R) THEN "Admin"
    ELSE IF PyStr("Superuser") \in Range(R) THEN "Superuser"
    ELSE IF PyStr("User") \in Range(R) THEN "User"
    ELSE "None"

\* the step just taken was the wrapper of require_permission, for tab t
PermissionGuardRan(t) == last.tab = t /\ last.op = "guard" /\ last.arg.kind = "permission"

PermissionWarning == "This page requires the following permission(s): **{}**"

\* C15 as stated: the function wrapped by require_permission(P1..Pn) is
\* called exactly when the session is authenticated and the caller has every
\* one of P1..Pn; in every other case the denial view names exactly the
\* permissions the caller lacks and the caller's highest role, and the
\* function does not run.
C15_PermissionGuardAsStated ==
    \A t \in tabs :
        PermissionGuardRan(t) =>
            LET required == last.arg.required
                R == GetUserRoles(sessions[t]).roles
                admitted == /\ GetAuthenticated(sessions[t]) /\ IsDict(sessions[t].user_info)
                            /\ Lacking(R, required) = <<>>
            IN  /\ last.out = "pass" <=> admitted
                /\ ~admitted =>
                      /\ pc[t] = "idle"
                      /\ Shows(last.view, "warning", PermissionWarning)
                      /\ Interpolated(last.view, "warning", PermissionWarning)
                            = Join(", ", StrList(Lacking(R, required)))
                      /\ Shows(last.view, "info", "Your current role: **{}**")
                      /\ Interpolated(last.view, "info", "Your current role: **{}**") = <<Highest(R)>>

\* C15 amended: the function wrapped by require_permission(P1..Pn) is called
\* exactly when the session is authenticated and the caller has every one of
\* P1..Pn, and never runs otherwise. A session that is not authenticated gets
\* the login denial. An authenticated caller who lacks some of P1..Pn gets a
\* denial view that names exactly the lacking ones, in the order required,
\* and the caller's highest role, or says that no roles are assigned when the
\* caller holds no recognised role. An authenticated session whose claims are
\* no mapping gets neither when a permission is required: the permission
\* query raises.
C15_PermissionGuard ==
    \A t \in tabs :
        (last.tab = t /\ last.op \in {"guard", "body"} /\ last.arg.kind = "permission") =>
            LET required == last.arg.required
                R == GetUserRoles(sessions[t]).roles
                mapping == IsDict(sessions[t].user_info)
                admitted == /\ GetAuthenticated(sessions[t])
                            /\ required = <<>> \/ (mapping /\ Lacking(R, required) = <<>>)
                denied == /\ GetAuthenticated(sessions[t]) /\ mapping
                          /\ Lacking(R, required) # <<>>
            IN  /\ (pc[t] = "body" \/ last.op = "body") => admitted
                /\ last.op = "guard" =>
                      /\ last.out = "pass" <=> admitted
                      /\ last.out = "pass" <=> pc[t] = "body"
                      /\ ~GetAuthenticated(sessions[t]) =>
                            /\ last.out = "deny_login"
                            /\ Shows(last.view, "error", "You must be logged in to access this page.")
                            /\ ~Shows(last.view, "warning", PermissionWarning)
                      /\ denied =>
                            /\ last.out = "deny_permission"
                            /\ Interpolated(last.view, "warning", PermissionWarning)
                                  = Join(", ", StrList(Lacking(R, required)))
                            /\ Highest(R) # "None" =>
                                  Interpolated(last.view, "info", "Your current role: **{}**")
                                      = <<Highest(R)>>
                            /\ Highest(R) = "None" =>
                                  Shows(last.view, "info",
                                        "You have no roles assigned. Contact your administrator.")
                      /\ (GetAuthenticated(sessions[t]) /\ ~mapping /\ required # <<>>) =>
                            last.out = "crash" /\ last.view = <<>>

\* C15 witness: a Superuser in front of require_permission(view_settings,
\* manage_users, edit_settings) was denied for manage_users alone.
C15_Witness ==
    \E t \in tabs :
        /\ PermissionGuardRan(t) /\ last.out = "deny_permission"
        /\ last.arg.required = <<"view_settings", "manage_users", "edit_settings">>
        /\ Interpolated(last.view, "warning", PermissionWarning) = <<"manage_users">>
        /\ Interpolated(last.view, "info", "Your current role: **{}**") = <<"Superuser">>

\* C16: for every list R of role strings in the roles claim and every
\* permission p, has_permission(p) returns, without raising, true exactly
\* when some element of R is a role whose entry in the fixed table holds p.
C16_HasPermissionIsTableLookup ==
    \A t \in tabs :
        (last.tab = t /\ last.op = "has_permission" /\ IsDict(sessions[t].user_info)
            /\ IsList(RolesClaim(sessions[t]))) =>
            /\ last.val.ok
            /\ last.val.val <=> Grants(RolesClaim(sessions[t]).items, last.arg[1])

\* C16 witness: has_permission(edit_settings) is true for the roles
\* ["Guest", "Superuser"]: the unrecognised role is skipped.
C16_Witness ==
    \E t \in tabs :
        /\ last.tab = t /\ last.op = "has_permission" /\ last.arg = <<"edit_settings">>
        /\ IsDict(sessions[t].user_info)
        /\ RolesClaim(sessions[t]) = PyList(<<PyStr("Guest"), PyStr("Superuser")>>)
        /\ last.val.val

\* C17: get_highest_role() returns Admin whenever "Admin" is among the roles,
\* whatever the order and the duplicates, otherwise Superuser if present,
\* otherwise User if present, and None for no roles or unrecognised ones only.
C17_HighestRoleByPriority ==
    \A t \in tabs :
        (last.tab = t /\ last.op = "get_highest_role" /\ IsDict(sessions[t].user_info)
            /\ IsList(RolesClaim(sessions[t]))) =>
            LET R == Range(RolesClaim(sessions[t]).items) IN
            /\ last.val.ok
            /\ PyStr("Admin") \in R => last.val.val = "Admin"
            /\ (PyStr("Admin") \notin R /\ PyStr("Superuser") \in R) => last.val.val = "Superuser"
            /\ (PyStr("Admin") \notin R /\ PyStr("Superuser") \notin R /\ PyStr("User") \in R) =>
                  last.val.val = "User"
            /\ R \cap {PyStr("Admin"), PyStr("Superuser"), PyStr("User")} = {} =>
                  last.val.val = "None"

\* C17 witness: the roles ["User", "Admin"] give Admin.
C17_Witness ==
    \E t \in tabs :
        /\ last.tab = t /\ last.op = "get_highest_role"
        /\ IsDict(sessions[t].user_info)
        /\ RolesClaim(sessions[t]) = PyList(<<PyStr("User"), PyStr("Admin")>>)
        /\ last.val.val = "Admin"

\* C18 as stated: get_user_roles() gives the empty sequence for an absent
\* roles claim (a null one counted as absent), the one-element sequence
\* holding the value for a single scalar value, and the sequence unchanged
\* for a sequence.
C18_RolesNormalisedAsStated ==
    \A t \in tabs :
        (last.tab = t /\ last.op = "get_user_roles" /\ IsDict(sessions[t].user_info)) =>
            LET claim == RolesClaim(sessions[t]) IN
            /\ last.val.ok
            /\ (~HasKey(sessions[t].user_info, "roles") \/ claim = PyNone) =>
                  last.val.roles = <<>>
            /\ (HasKey(sessions[t].user_info, "roles") /\ ~IsList(claim) /\ claim # PyNone) =>
                  last.val.roles = <<claim>>
            /\ IsList(claim) => last.val.roles = claim.items

\* C18 amended: get_user_roles() gives the empty sequence for an absent roles
\* claim, the one-element sequence holding the value for a single scalar
\* value that is truthy (a non-empty string), the empty sequence for a scalar
\* that is falsy (the empty string, null), and the sequence unchanged, in the
\* provider's order, for a sequence.
C18_RolesNormalised ==
    \A t \in tabs :
        (last.tab = t /\ last.op = "get_user_roles" /\ IsDict(sessions[t].user_info)) =>
            LET claim == RolesClaim(sessions[t])
                falsy == claim = PyNone \/ claim = PyStr("")
            IN  /\ last.val.ok
                /\ ~HasKey(sessions[t].user_info, "roles") => last.val.roles = <<>>
                /\ (HasKey(sessions[t].user_info, "roles") /\ ~IsList(claim) /\ ~falsy) =>
                      last.val.roles = <<claim>>
                /\ (HasKey(sessions[t].user_info, "roles") /\ ~IsList(claim) /\ falsy) =>
                      last.val.roles = <<>>
                /\ IsList(claim) => last.val.roles = claim.items

\* C18 witness: the scalar claim "Admin" gives ["Admin"].
C18_Witness ==
    \E t \in tabs :
        /\ last.tab = t /\ last.op = "get_user_roles"
        /\ IsDict(sessions[t].user_info)
        /\ RolesClaim(sessions[t]) = PyStr("Admin")
        /\ last.val.roles = <<PyStr("Admin")>>

\* C19: get_accessible_pages() returns Home = true, Analytics = the table's
\* answer for view_analytics, Settings = for view_settings, Users = for
\* manage_users; for the claims committed with roles ["Superuser"] that is
\* Home, Analytics and Settings true and Users false, with
\* has_permission(manage_users) false and has_permission(edit_settings) true.
C19_AccessiblePages ==
    \A t \in tabs :
        /\ (last.tab = t /\ last.op = "get_accessible_pages" /\ IsDict(sessions[t].user_info)) =>
              LET R == GetUserRoles(sessions[t]).roles IN
              /\ last.val.ok
              /\ last.val.val = [Home |-> TRUE,
                                 Analytics |-> Grants(R, "view_analytics"),
                                 Settings |-> Grants(R, "view_settings"),
                                 Users |-> Grants(R, "manage_users")]
              /\ last.val.val.Analytics = HasPermission(sessions[t], "view_analytics").val
              /\ last.val.val.Settings = HasPermission(sessions[t], "view_settings").val
              /\ last.val.val.Users = HasPermission(sessions[t], "manage_users").val
        /\ (last.tab = t /\ last.op = "get_accessible_pages" /\ sessions[t].user_info = Alice) =>
              /\ RolesClaim(sessions[t]) = PyList(<<PyStr("Superuser")>>)
              /\ last.val.val = [Home |-> TRUE, Analytics |-> TRUE, Settings |-> TRUE,
                                 Users |-> FALSE]
              /\ ~HasPermission(sessions[t], "manage_users").val
              /\ HasPermission(sessions[t], "edit_settings").val

\* C19 witness: get_accessible_pages() was asked of the session that holds
\* the claims committed with roles ["Superuser"].
C19_Witness ==
    \E t \in tabs :
        /\ last.tab = t /\ last.op = "get_accessible_pages"
        /\ sessions[t].authenticated /\ sessions[t].user_info = Alice
        /\ ~last.val.val.Users /\ last.val.val.Settings

\* the strings handle_auth_callback and handle_auth_flow show on a failure
\* that carry no detail
GenericFailureTexts ==
    {"Authentication failed. Please try again or contact support.",
     "An error occurred during authentication. Please try again later.",
     "Authentication failed. Please try again."}

\* C20: on every failure path of the exchange (no access token in the result,
\* or an exception), every message shown to the visitor is one of the fixed
\* generic strings with nothing interpolated: the provider's error code, its
\* description and the exception text go to the log and not to the view.
C20_FailureTextIsGeneric ==
    \A t \in tabs :
        (Just("handle_auth_flow", t) /\ last.out \in Failed \cup {"controller_raised"}) =>
            /\ last.view # <<>>
            /\ \A i \in 1..Len(last.view) :
                  /\ last.view[i].text \in GenericFailureTexts
                  /\ last.view[i].detail = <<>>

\* C21: no failure path crashes: no step of a request ends with an uncaught
\* exception, and on every session that is authenticated (one restored from
\* a user_info cookie that init_session_state accepted included) the RBAC
\* queries get_user_roles, get_highest_role, has_permission and
\* get_accessible_pages return a value rather than raising.
C21_NoCrash ==
    /\ last.out # "crash"
    /\ \A t \in tabs :
          GetAuthenticated(sessions[t]) =>
              /\ GetUserRoles(sessions[t]).ok
              /\ GetHighestRole(sessions[t]).ok
              /\ \A i \in 1..Len(PermissionValues) :
                    HasPermission(sessions[t], PermissionValues[i]).ok
              /\ GetAccessiblePages(sessions[t]).ok

\* the names validate_config may report, in the order it reports them
CredentialNames == <<"AZURE_CLIENT_ID", "AZURE_CLIENT_SECRET", "AZURE_TENANT_ID">>

\* the resolved value validate_config reads for a name
ResolvedFor(name) ==
    CASE name = "AZURE_CLIENT_ID" -> config.client_id
      [] name = "AZURE_CLIENT_SECRET" -> config.client_secret
      [] name = "AZURE_TENANT_ID" -> config.tenant_id
      [] name = "REDIRECT_URI" -> config.redirect_uri

\* a resolved value that is set: neither None nor the empty string
IsSetValue(v) == v # PyNone /\ v # PyStr("")

\* C22: validate_config returns (true, empty list) exactly when client id,
\* client secret and tenant id are all set; otherwise it returns false with
\* the names of the unset ones in the fixed order AZURE_CLIENT_ID,
\* AZURE_CLIENT_SECRET, AZURE_TENANT_ID. REDIRECT_URI is never reported as
\* missing, and the answer is a value in every case.
C22_ValidateConfig ==
    last.op = "validate_config" =>
        LET Unset(name) == ~IsSetValue(ResolvedFor(name))
            AllSet == \A i \in 1..Len(CredentialNames) : ~Unset(CredentialNames[i])
        IN  /\ last.val.ok \in BOOLEAN
            /\ last.val.ok <=> AllSet
            /\ last.val.ok => last.val.missing = <<>>
            /\ ~last.val.ok => last.val.missing # <<>>
            /\ last.val.missing = SelectSeq(CredentialNames, Unset)
            /\ ~InList("REDIRECT_URI", last.val.missing)
            /\ (\A i \in 1..Len(CredentialNames) :
                   environ.env[CredentialNames[i]] = PyStr("from-env")) => last.val.ok

\* C22 witness: validate_config() answered with the client id and the tenant
\* id missing, in that order, while REDIRECT_URI is set nowhere.
C22_Witness ==
    /\ last.op = "validate_config"
    /\ ~last.val.ok
    /\ last.val.missing = <<"AZURE_CLIENT_ID", "AZURE_TENANT_ID">>
    /\ environ.env["REDIRECT_URI"] = PyNone
    /\ environ.secrets["REDIRECT_URI"] = PyNone

\* the secret store supplies a value for a key
SecretSupplied(e, key) ==
    e.streamlit_available /\ e.secrets_found /\ e.secrets[key] # PyNone

\* C23: for every key and every combination of environment value (unset,
\* empty, non-empty) and secret-store value (absent, non-empty), _get_config
\* returns the environment value when it is usable, else the secret-store
\* value when there is one, else the built-in default.
C23_Precedence ==
    last.op = "_get_config" =>
        LET key == last.arg[1]
            env_value == environ.env[key]
        IN  last.val = IF Truthy(env_value) THEN env_value
                       ELSE IF SecretSupplied(environ, key) THEN environ.secrets[key]
                       ELSE DefaultOf(key)

\* C24: page guards and the navigation view agree: for every authenticated
\* session and every roles claim, the guard of a protected page (Analytics:
\* require_authentication; Settings: require_role(Admin, Superuser); Users:
\* require_role(Admin)) admits the caller if and only if
\* get_accessible_pages reports that page as true.
C24_GuardsAgreeWithNavigation ==
    \A t \in tabs : \A p \in Pages \ {"Home"} :
        (/\ Just("guard", t) /\ last.arg = PageGuardOf(p)
         /\ last.auth /\ GetAccessiblePages(sessions[t]).ok) =>
            ((last.out = "pass") <=> GetAccessiblePages(sessions[t]).val[p])

\* C25: session consistency: after every completed operation
\* (init_session_state, handle_auth_callback, logout) authenticated is true
\* if and only if user_info holds a claims mapping: an anonymous session
\* retains no claims and an authenticated session never has absent or
\* non-mapping claims.
C25_SessionConsistent ==
    \A t \in tabs :
        (last.tab = t /\ last.op \in {"init_session_state", "handle_auth_flow", "logout", "page_body"}) =>
            /\ sessions[t].authenticated => IsDict(sessions[t].user_info)
            /\ ~sessions[t].authenticated => sessions[t].user_info = PyNone

\* C26: at the end of every run of the home request handler
\* auth_code_processed = true implies authenticated = true: the flag is left
\* set only by a successful exchange, is cleared on every failed exchange
\* and is cleared by logout.
C26_FlagImpliesAuthenticated ==
    [][\A t \in tabs :
          /\ sessions'[t].auth_code_processed => sessions'[t].authenticated
          /\ (sessions'[t].auth_code_processed /\ ~sessions[t].auth_code_processed) =>
                /\ last'.op = "handle_auth_flow" /\ last'.tab = t
                /\ last'.out \in Committed
          /\ (last'.op = "handle_auth_flow" /\ last'.tab = t
              /\ last'.out \in Failed \cup {"controller_raised"}) =>
                ~sessions'[t].auth_code_processed
          /\ (last'.op = "logout" /\ last'.tab = t) =>
                ~sessions'[t].auth_code_processed]_vars

\* C26 witness: a home run ended in a failed exchange with the flag cleared,
\* after the provider had honoured another code for this browser.
C26_Witness ==
    \E t \in tabs :
        /\ Just("handle_auth_flow", t) /\ last.out \in Failed
        /\ ~sessions[t].auth_code_processed /\ ~sessions[t].authenticated
        /\ redeemed # {}

\* the results of the provider that carry an access token
TokenResults ==
    {[kind |-> "token", has_claims |-> TRUE, claims |-> cl,
      error |-> "", error_description |-> "", text |-> ""] : cl \in ProviderClaims}

\* C27: a failed exchange never locks the visitor out: after handle_auth_flow
\* handled a failed exchange the session is anonymous with
\* auth_code_processed = false; a later run of handle_auth_flow on an
\* anonymous session whose request carries a code is never skipped, it calls
\* the exchange again, and a token result then makes the session
\* authenticated.
C27_FailedExchangeDoesNotLockOut ==
    \A t \in tabs :
        /\ (Just("handle_auth_flow", t) /\ last.out \in Failed \cup {"controller_raised"}) =>
              /\ ~sessions[t].authenticated
              /\ ~sessions[t].auth_code_processed
        /\ (Just("handle_auth_flow", t) /\ last.code # NoCode /\ ~last.auth) =>
              last.out # "skipped"
        /\ (pc[t] = "inited" /\ ~sessions[t].authenticated /\ query[t] # NoCode
            /\ HomePreamble(sessions[t], config) = "go") =>
              \A result \in TokenResults, set_outcome \in SetOutcomes :
                  LET f == HandleAuthFlow(sessions[t], jar, query[t], result, set_outcome) IN
                  /\ f.called /\ f.out \in Committed
                  /\ f.sess.authenticated /\ f.sess.user_info = result.claims

\* C27 witness: the exchange of a code committed after an earlier exchange
\* of the same code had failed.
C27_Witness ==
    \E t \in tabs :
        /\ Just("handle_auth_flow", t) /\ last.out \in Committed
        /\ exchanges[last.code] >= 2
        /\ sessions[t].authenticated /\ ~last.auth

\* both auth cookies are in the jar and `authenticated` reads "true"
AuthCookiesPresent(j) ==
    /\ j["authenticated"].present /\ j["authenticated"].value = TrueText
    /\ j["user_info"].present

\* C28 as stated: with two session contexts that share one cookie jar, after
\* logout() completes in one of them no session context of the browser is
\* authenticated, and every authenticated local session implies that the
\* `authenticated` = "true" and `user_info` cookies are in the shared jar.
C28_LogoutEndsEveryContext ==
    /\ \A t \in tabs : Just("logout", t) => \A u \in tabs : ~sessions[u].authenticated
    /\ \A u \in tabs : sessions[u].authenticated => AuthCookiesPresent(jar)

\* C28: with two session contexts that share one cookie jar, logout() in one
\* of them resets that context to the anonymous defaults and removes both
\* cookies from the shared jar, so that init_session_state restores no
\* anonymous or new context from the jar it leaves; the session state of the
\* other context is left as it was, authenticated if it was authenticated.
C28_LogoutIsLocalAndClearsJar ==
    [][\A t \in tabs :
          (last'.op = "logout" /\ last'.tab = t) =>
              /\ AnonymousDefaults(sessions'[t])
              /\ AuthCookiesAbsent(jar')
              /\ \A u \in tabs \ {t} : sessions'[u] = sessions[u]
              /\ ~InitSessionState(FreshSession, jar').sess.authenticated
              /\ \A u \in tabs :
                    ~sessions'[u].authenticated =>
                        ~InitSessionState(sessions'[u], jar').sess.authenticated]_vars

\* C28 witness: logout() completed in one tab while the other tab's session,
\* restored from the shared jar, is still authenticated.
C28_Witness ==
    \E t \in tabs : \E u \in tabs \ {t} :
        /\ Just("logout", t)
        /\ ~sessions[t].authenticated /\ AuthCookiesAbsent(jar)
        /\ sessions[u].authenticated /\ IsDict(sessions[u].user_info)

\* C29: the `authenticated` and `user_info` cookies are written by the
\* program only in a handle_auth_flow step whose handle_auth_callback got a
\* result with an access token; init_session_state and logout never write
\* them, they leave each of them as it was or remove it. (The other writer
\* of the jar is the browser side; a step wrote a cookie when the cookie is
\* in the jar afterwards with a value or attributes it did not have before.)
C29_OnlyTheCommitWritesAuthCookies ==
    [][\A n \in {"authenticated", "user_info"} :
          /\ (jar'[n].present /\ jar'[n] # jar[n] /\ last'.op # "client") =>
                /\ last'.op = "handle_auth_flow"
                /\ last'.out \in Committed
                /\ sessions'[last'.tab].authenticated
                /\ last'.code \in redeemed'
          /\ last'.op \in {"init_session_state", "logout", "page_body"} =>
                (jar'[n] = jar[n] \/ ~jar'[n].present)]_vars

\* C29 witness: a commit wrote both cookies, the second login this browser
\* committed.
C29_Witness ==
    \E t \in tabs :
        /\ Just("handle_auth_flow", t) /\ last.out = "committed"
        /\ jar["authenticated"] = CommittedCookie(TrueText)
        /\ jar["user_info"] = CommittedCookie(Dumps(sessions[t].user_info))
        /\ Cardinality(redeemed) = 2

\* C30: guards with an empty requirement list: require_role() with no roles
\* never admits an authenticated caller, whatever roles the caller holds
\* (has_any_role of an empty list is false: the role denial is rendered),
\* while require_permission() with no permissions admits every
\* authenticated caller; require_role is a disjunction over its roles and
\* require_permission a conjunction over its permissions.
C30_EmptyRequirements ==
    \A t \in tabs :
        (Just("guard", t) /\ last.auth) =>
            LET required == last.arg.required
                mapping == IsDict(sessions[t].user_info)
                R == GetUserRoles(sessions[t]).roles
            IN  /\ (last.arg.kind = "role" /\ required = <<>>) =>
                      /\ last.out # "pass" /\ pc[t] = "idle"
                      /\ mapping =>
                            /\ last.out = "deny_role"
                            /\ Shows(last.view, "error", "Access Denied")
                /\ (last.arg.kind = "permission" /\ required = <<>>) =>
                      /\ last.out = "pass" /\ pc[t] = "body"
                      /\ last.view = <<>>
                /\ (last.arg.kind = "role" /\ mapping) =>
                      (last.out = "pass" <=>
                          \E i \in 1..Len(required) : PyStr(required[i]) \in Range(R))
                /\ (last.arg.kind = "permission" /\ mapping) =>
                      (last.out = "pass" <=>
                          \A i \in 1..Len(required) : Grants(R, required[i]))

\* C30 witness: require_role() with no roles has denied an Admin.
C30_Witness ==
    \E t \in tabs :
        /\ Just("guard", t) /\ last.auth
        /\ last.arg = [kind |-> "role", required |-> <<>>]
        /\ last.out = "deny_role"
        /\ PyStr("Admin") \in Range(GetUserRoles(sessions[t]).roles)

====
